---------------------------- MODULE Spec2Model ----------------------------
(***************************************************************************)
(* A model of the Canvas grade checker (blaybrigidi/4Salvage):             *)
(*                                                                         *)
(*   - analyze_grade_against_rubric, the rubric discrepancy analyzer       *)
(*     (app/services/grading_service.py and its copy in                    *)
(*     app/services/canvas_api.py), as operators applied by the actions    *)
(*     of SpecAnalyzer;                                                    *)
(*   - monitor_grades, the grade-change monitor (the service version in    *)
(*     app/services/grading_service.py and the route version in            *)
(*     app/routes/grading.py), as the state machine of SpecMonitor.        *)
(*                                                                         *)
(* Encoding of Python values.  A dict is a TLA+ record that may lack       *)
(* fields: d.get(k, default) is Get(d, k, default).  A value that may be   *)
(* None is a sequence of length at most one: None is <<>>, the value v is  *)
(* <<v>>.  Points and scores are integers counting hundredths of a point,  *)
(* so the source's 0.01 is 1.                                              *)
(***************************************************************************)
EXTENDS Integers, Sequences, FiniteSets, TLC

VARIABLES
    \* ---- analyzer (SpecAnalyzer) ----
    submission,         \* the submission record handed to the analyzer
    rubric_info,        \* the rubric record handed to the analyzer
    rubric_assessment,  \* the assessment map handed to the analyzer
    report,             \* what the analyzer returned (or that it raised)
    analyzer,           \* which copy ran: "none", "grading_service", "canvas_api"
    \* ---- the world of the monitor ----
    canvas,             \* Canvas: assignment key -> the score recorded (None: not graded)
    persisted,          \* the content of grades_cache.json: key -> submission
    gradeChanges,       \* how many times a grade was changed in Canvas
    passes,             \* how many monitoring passes were started
    notified,           \* (key, score) -> the notifications sent for that grade
                        \* since Canvas last changed the grade of the key
    \* ---- one monitoring pass per trigger (the locals of monitor_grades) ----
    pc,                 \* where the pass stands
    impl,               \* which monitor_grades runs: "service" or "routes"
    grades_cache,       \* the pass's in-memory cache
    courses,            \* the fetched course list
    ci,                 \* index of the current course
    assignments,        \* the fetched assignment list of the current course
    ai,                 \* index of the current assignment
    current,            \* the submission fetched for the current assignment
    grade_check,        \* the result of the rubric check of the current assignment
    \* ---- what the pass did so far (history, reset when a pass starts) ----
    loaded,             \* the cache as loaded at the start of the pass
    visited,            \* keys of the assignments whose loop iteration began
    fetched,            \* key -> the submission fetched from Canvas
    checked,            \* key -> has_discrepancy as the rubric check reported it
    errored,            \* keys whose rubric check ended in an error
    emitted,            \* key -> what became of the notification handed to the sink
    failed,             \* keys whose iteration ended in the per-assignment except
    saves,              \* how many times the pass wrote the cache file
    \* ---- the marking predictor of one instructor ----
    model_file,         \* the content of marking_model_<id>.pkl (None: no file)
    predictor,          \* the LecturerMarkingPredictor object (None: not constructed)
    ml_call,            \* the last call on the predictor and its arguments
    ml_result,          \* what that call returned
    ml_ran,             \* the sub-model operations that call executed
    trainings           \* how many times train_model was called

analyzerVars == <<submission, rubric_info, rubric_assessment, report, analyzer>>

worldVars == <<canvas, persisted, gradeChanges, passes, notified>>

passVars == <<pc, impl, grades_cache, courses, ci, assignments, ai, current, grade_check>>

historyVars == <<loaded, visited, fetched, checked, errored, emitted, failed, saves>>

monitorVars == <<worldVars, passVars, historyVars>>

profileVars == <<model_file, predictor, ml_call, ml_result, ml_ran, trainings>>

vars == <<analyzerVars, monitorVars, profileVars>>

(***************************************************************************)
(* Python values                                                           *)
(***************************************************************************)
None == <<>>

Some(v) == <<v>>

EmptyDict == <<>>

\* d.get(k, default), for a key whose value is stored as it is
Get(d, k, default) == IF k \in DOMAIN d THEN d[k] ELSE default

\* d.get(k), for a key that is never null when present: None when missing
GetOpt(d, k) == IF k \in DOMAIN d THEN Some(d[k]) ELSE None

\* how an f-string renders a value that may be None
PyStr(x) == IF x = None THEN "None" ELSE x[1]

\* a number that may be None, read as a number (None: 0)
PyNum(x) == IF x = None THEN 0 ELSE x[1]

Abs(x) == IF x < 0 THEN -x ELSE x

\* a dict entry whose value may be null: the value, or None when the key is
\* missing or the value is null (d.get(k) of a JSON object)
GetNullable(d, k) == IF k \in DOMAIN d THEN d[k] ELSE None

\* no predictor was constructed and nothing was called
InitProfileIdle ==
    /\ model_file = None
    /\ predictor = None
    /\ ml_call = [op |-> "none"]
    /\ ml_result = [status |-> "not_run"]
    /\ ml_ran = {}
    /\ trainings = 0

(***************************************************************************)
(* Bounds and input domains of the analyzer                                *)
(***************************************************************************)
MaxCriteria == 2

\* the rubric of the spec's concrete scenarios: ratings without description
Criterion1 ==
    [id |-> "c1", points |-> 1000,
     ratings |-> << [id |-> "r1", points |-> 1000],
                    [id |-> "r2", points |-> 500] >>]

Criterion2 ==
    [id |-> "c2", description |-> "Clarity", points |-> 500,
     ratings |-> << [id |-> "r1", description |-> "Full Marks", points |-> 500],
                    [id |-> "r3", description |-> "No Marks", points |-> 0] >>]

\* a criterion with no "ratings" key; never assessed
Criterion3 == [id |-> "c3", description |-> "Participation", points |-> 800]

CriterionCatalogue == {Criterion1, Criterion2, Criterion3}

AssessedCriterionIds == {"c1", "c2"}

AwardedPoints == {500, 501, 502, 800}

RatingIds == {"r1", "r2", "r3"}

ActualScores == {500, 501, 502, 800, 1000}

\* one criterion's assessment: {points, rating_id}, either key may be missing
CriterionAssessments ==
    [points : AwardedPoints, rating_id : RatingIds]
        \cup [points : AwardedPoints]
        \cup [rating_id : RatingIds]
        \cup {EmptyDict}

AssessmentMaps ==
    UNION {[S -> CriterionAssessments] : S \in SUBSET AssessedCriterionIds}

SeqsUpTo(S, n) == UNION {[1..k -> S] : k \in 0..n}

\* {"rubric": [...]}, {"rubric": None}, or a record with no "rubric" key
RubricInfos ==
    {[rubric |-> Some(r)] : r \in SeqsUpTo(CriterionCatalogue, MaxCriteria)}
        \cup {[rubric |-> None], EmptyDict}

\* {"score": n}, {"score": None} (not graded), or no "score" key
Submissions ==
    {[score |-> Some(s)] : s \in ActualScores} \cup {[score |-> None], EmptyDict}

(***************************************************************************)
(* analyze_grade_against_rubric                                            *)
(***************************************************************************)
ScoreTolerance == 1

CriterionTolerance == 1

\* a lookup that forgets to compare the identifiers: the first rating always matches
FindRating_FirstRating(ratings, rating_id) ==
    IF ratings = <<>> THEN None ELSE Some(Head(ratings))

\* lines 181-185: the first rating whose id equals rating_id (None: no match)
RECURSIVE FindRating(_, _)
FindRating(ratings, rating_id) ==
    IF ratings = <<>> THEN None
    ELSE IF GetOpt(Head(ratings), "id") = rating_id
         THEN Some(Head(ratings))
         ELSE FindRating(Tail(ratings), rating_id)

\* a test that reads a missing expected value as 0 ("expected_points or 0")
CriterionDiscrepancy_NoneAsZero(expected_points, awarded_points) ==
    Abs((IF expected_points = None THEN 0 ELSE expected_points[1]) - awarded_points)
        > CriterionTolerance

\* line 194: the criterion's discrepancy test
CriterionDiscrepancy(expected_points, awarded_points) ==
    /\ expected_points # None
    /\ Abs(expected_points[1] - awarded_points) > CriterionTolerance

\* a finding that holds the criterion's identifier and the points awarded
\* and never flags the criterion: the rating is not looked up
AnalyzeCriterion_PointsOnly(criterion, assessment_map) ==
    LET criterion_id == GetOpt(criterion, "id")
        criterion_assessment ==
            IF criterion_id # None /\ criterion_id[1] \in DOMAIN assessment_map
            THEN assessment_map[criterion_id[1]]
            ELSE EmptyDict
    IN  [criterion_id |-> criterion_id,
         points_awarded |-> Get(criterion_assessment, "points", 0),
         has_discrepancy |-> FALSE]

\* lines 164-210: one pass of the loop body, the finding appended for a criterion
AnalyzeCriterion(criterion, assessment_map) ==
    LET criterion_id == GetOpt(criterion, "id")
        criterion_assessment ==
            IF criterion_id # None /\ criterion_id[1] \in DOMAIN assessment_map
            THEN assessment_map[criterion_id[1]]
            ELSE EmptyDict
        awarded_points == Get(criterion_assessment, "points", 0)
        rating_id == GetOpt(criterion_assessment, "rating_id")
        rating == FindRating(Get(criterion, "ratings", <<>>), rating_id)
        rating_description ==
            IF rating = None THEN None ELSE GetOpt(rating[1], "description")
        expected_points ==
            IF rating = None THEN None ELSE GetOpt(rating[1], "points")
        criterion_discrepancy == CriterionDiscrepancy(expected_points, awarded_points)
    IN  [criterion_id |-> criterion_id,
         description |-> GetOpt(criterion, "description"),
         possible_points |-> GetOpt(criterion, "points"),
         points_awarded |-> awarded_points,
         rating_id |-> rating_id,
         rating_description |-> rating_description,
         expected_points |-> expected_points,
         has_discrepancy |-> criterion_discrepancy,
         discrepancy_reason |->
            IF criterion_discrepancy
            THEN Some([template |-> "Rating '{}' should be worth {} points, but {} were awarded",
                       rating |-> PyStr(rating_description),
                       expected |-> expected_points,
                       awarded |-> awarded_points])
            ELSE None,
         comments |-> GetOpt(criterion_assessment, "comments")]

\* a loop that skips the criteria the assessment map does not hold
CriteriaAnalysis_SkipUnassessed(rubric, assessment_map) ==
    LET Assessed(c) == "id" \in DOMAIN c /\ c.id \in DOMAIN assessment_map
        kept == SelectSeq(rubric, Assessed)
    IN  [i \in 1..Len(kept) |-> AnalyzeCriterion(kept[i], assessment_map)]

\* lines 162-210: criteria_analysis, one finding appended per criterion, in order
CriteriaAnalysis(rubric, assessment_map) ==
    [i \in 1..Len(rubric) |-> AnalyzeCriterion(rubric[i], assessment_map)]

\* a sum of the criteria's possible points instead of the awarded points
RECURSIVE SumAwarded_PossiblePoints(_)
SumAwarded_PossiblePoints(findings) ==
    IF findings = <<>> THEN 0
    ELSE PyNum(Head(findings).possible_points)
            + SumAwarded_PossiblePoints(Tail(findings))

\* lines 161 and 188 over the whole loop: calculated_score += awarded_points
RECURSIVE SumAwarded(_)
SumAwarded(findings) ==
    IF findings = <<>> THEN 0
    ELSE Head(findings).points_awarded + SumAwarded(Tail(findings))

\* line 219
RECURSIVE CountDiscrepancies(_)
CountDiscrepancies(findings) ==
    IF findings = <<>> THEN 0
    ELSE (IF Head(findings).has_discrepancy THEN 1 ELSE 0)
            + CountDiscrepancies(Tail(findings))

\* a comparison that counts a difference of exactly 0.01
ScoreDiscrepancy_Inclusive(score_difference) == score_difference >= ScoreTolerance

\* line 216
ScoreDiscrepancy(score_difference) == score_difference > ScoreTolerance

\* abs(calculated_score - None) at line 213
RaisedTypeError == [status |-> "raised", exception |-> "TypeError"]

\* a test that takes only an absent rubric, not an empty one, as missing
RubricMissing_OnlyNone(rubric) == rubric = None

\* line 154: not rubric
RubricMissing(rubric) == rubric = None \/ rubric[1] = <<>>

\* app/services/grading_service.py, lines 143-230
analyze_grade_against_rubric(sub, rinfo, assessment_map) ==
    LET actual_score == Get(sub, "score", Some(0))
        rubric == Get(rinfo, "rubric", Some(<<>>))
    IN  IF RubricMissing(rubric)
        THEN [status |-> "no_rubric_data",
              message |-> [template |-> "Unable to analyze without rubric data"]]
        ELSE
        LET criteria_analysis == CriteriaAnalysis(rubric[1], assessment_map)
            calculated_score == SumAwarded(criteria_analysis)
        IN  IF actual_score = None THEN RaisedTypeError
            ELSE
            LET score_difference == Abs(calculated_score - actual_score[1])
                has_discrepancy == ScoreDiscrepancy(score_difference)
            IN  [status |-> "analysis_complete",
                 actual_score |-> actual_score[1],
                 calculated_score |-> calculated_score,
                 score_difference |-> score_difference,
                 has_discrepancy |-> has_discrepancy,
                 criteria_analysis |-> criteria_analysis,
                 criteria_with_discrepancies |-> CountDiscrepancies(criteria_analysis),
                 message |->
                    IF ~has_discrepancy
                    THEN [template |-> "Grade appears correct"]
                    ELSE [template |-> "Possible grade discrepancy of {} points",
                          score_difference |-> score_difference]]

\* app/services/canvas_api.py, lines 294-383: the copy the routes import,
\* translated on its own from that file
canvas_api_analyze_grade_against_rubric(sub, rinfo, assessment_map) ==
    LET actual_score == IF "score" \in DOMAIN sub THEN sub.score ELSE Some(0)
        rubric == IF "rubric" \in DOMAIN rinfo THEN rinfo.rubric ELSE Some(<<>>)
        \* lines 317-363, the finding of one criterion
        Finding(criterion) ==
            LET criterion_assessment ==
                    IF "id" \in DOMAIN criterion /\ criterion.id \in DOMAIN assessment_map
                    THEN assessment_map[criterion.id] ELSE EmptyDict
                awarded_points ==
                    IF "points" \in DOMAIN criterion_assessment
                    THEN criterion_assessment.points ELSE 0
                rating_id == GetOpt(criterion_assessment, "rating_id")
                ratings == IF "ratings" \in DOMAIN criterion THEN criterion.ratings ELSE <<>>
                matches == {j \in 1..Len(ratings) : GetOpt(ratings[j], "id") = rating_id}
                first == CHOOSE j \in matches : \A k \in matches : j <= k
                rating_description ==
                    IF matches = {} THEN None ELSE GetOpt(ratings[first], "description")
                expected_points ==
                    IF matches = {} THEN None ELSE GetOpt(ratings[first], "points")
                criterion_discrepancy ==
                    IF expected_points = None THEN FALSE
                    ELSE Abs(expected_points[1] - awarded_points) > CriterionTolerance
            IN  [criterion_id |-> GetOpt(criterion, "id"),
                 description |-> GetOpt(criterion, "description"),
                 possible_points |-> GetOpt(criterion, "points"),
                 points_awarded |-> awarded_points,
                 rating_id |-> rating_id,
                 rating_description |-> rating_description,
                 expected_points |-> expected_points,
                 has_discrepancy |-> criterion_discrepancy,
                 discrepancy_reason |->
                    IF criterion_discrepancy
                    THEN Some([template |-> "Rating '{}' should be worth {} points, but {} were awarded",
                               rating |-> PyStr(rating_description),
                               expected |-> expected_points,
                               awarded |-> awarded_points])
                    ELSE None,
                 comments |-> GetOpt(criterion_assessment, "comments")]
    IN  IF rubric = None \/ rubric[1] = <<>>
        THEN [status |-> "no_rubric_data",
              message |-> [template |-> "Unable to analyze without rubric data"]]
        ELSE
        LET criteria_analysis == [i \in 1..Len(rubric[1]) |-> Finding(rubric[1][i])]
            Partial[n \in 0..Len(criteria_analysis)] ==
                IF n = 0 THEN 0 ELSE Partial[n - 1] + criteria_analysis[n].points_awarded
            calculated_score == Partial[Len(criteria_analysis)]
        IN  IF actual_score = None THEN RaisedTypeError
            ELSE
            LET score_difference == Abs(calculated_score - actual_score[1])
                has_discrepancy == score_difference > ScoreTolerance
            IN  [status |-> "analysis_complete",
                 actual_score |-> actual_score[1],
                 calculated_score |-> calculated_score,
                 score_difference |-> score_difference,
                 has_discrepancy |-> has_discrepancy,
                 criteria_analysis |-> criteria_analysis,
                 criteria_with_discrepancies |->
                    Cardinality({i \in 1..Len(criteria_analysis) :
                                    criteria_analysis[i].has_discrepancy}),
                 message |->
                    IF ~has_discrepancy
                    THEN [template |-> "Grade appears correct"]
                    ELSE [template |-> "Possible grade discrepancy of {} points",
                          score_difference |-> score_difference]]

(***************************************************************************)
(* The world the monitor polls: two courses, their assignments, the        *)
(* rubric of each assignment and the assessment its grader filed.          *)
(***************************************************************************)
MaxPasses == 2

MaxGradeChanges == 1

\* fetch_user_courses()
CourseList == << [id |-> 1, name |-> "Algebra"], [id |-> 2, name |-> "Biology"] >>

\* fetch_canvas_assignments(course_id); the quiz has no submitted work
AssignmentsOf(course_id) ==
    IF course_id = 1
    THEN << [id |-> 11, name |-> "Essay", has_submitted_submissions |-> TRUE],
            [id |-> 13, name |-> "Quiz"] >>
    ELSE << [id |-> 21, name |-> "Field notes", has_submitted_submissions |-> TRUE] >>

\* the assignments Canvas holds a submission of the user for
SubmittedKeys == {<<1, 11>>, <<2, 21>>}

AllKeys == SubmittedKeys \cup {<<1, 13>>}

GradeScores == {500, 800}

\* the rubric attached to an assignment (None: no rubric)
RubricOf(assignment_id) ==
    IF assignment_id = 11 THEN Some(<<Criterion1>>) ELSE None

\* the rubric assessment of the user's submission: it awards 8 points on the
\* essay (its rating r2 is worth 5); the field notes have none
AssessmentOf(assignment_id) ==
    IF assignment_id = 11
    THEN Some([k \in {"c1"} |-> [points |-> 800, rating_id |-> "r2"]])
    ELSE None

\* what fetch_my_canvas_grade returns for a key, given the score Canvas holds
SubmissionWith(key, score) ==
    IF score = None
    THEN [workflow_state |-> "submitted", score |-> None]
    ELSE IF AssessmentOf(key[2]) = None
    THEN [workflow_state |-> "graded", score |-> score]
    ELSE [workflow_state |-> "graded", score |-> score,
          rubric_assessment |-> AssessmentOf(key[2])[1]]

\* app/services/canvas_api.py, lines 82-108
fetch_my_canvas_grade(key) == SubmissionWith(key, canvas[key])

\* app/services/canvas_api.py, lines 110-170
fetch_assignment_rubric(assignment_id) ==
    [assignment_id |-> assignment_id, rubric |-> RubricOf(assignment_id)]

\* f"{course_id}_{assignment_id}": the two identifiers, kept apart by the "_"
CacheKey(course_id, assignment_id) == <<course_id, assignment_id>>

\* d[k] = v on a dict
Put(d, k, v) == [x \in DOMAIN d \cup {k} |-> IF x = k THEN v ELSE d[x]]

\* an update that is lost: the cache stays as it was
UpdateCache_Lost(cache, key, sub) == cache

\* line 96 (service), line 188 (routes): grades_cache[cache_key] = submission
UpdateCache(cache, key, sub) == Put(cache, key, sub)

(***************************************************************************)
(* check_grade_against_rubric, in its two versions.  sub and rinfo are the *)
(* results of the two fetches, None when the fetch raised.                 *)
(***************************************************************************)
\* app/services/grading_service.py, lines 108-141: every exception is caught
\* and reported as the status "error"
check_grade_against_rubric(sub, rinfo) ==
    IF sub = None \/ rinfo = None THEN [status |-> "error"]
    ELSE IF RubricMissing(Get(rinfo[1], "rubric", None))
    THEN [status |-> "no_rubric", submission |-> sub[1]]
    ELSE LET analysis == analyze_grade_against_rubric(
                            sub[1], rinfo[1], Get(sub[1], "rubric_assessment", EmptyDict))
         IN  IF analysis.status = "raised" THEN [status |-> "error"]
             ELSE [status |-> "completed", submission |-> sub[1],
                   rubric |-> rinfo[1], analysis |-> analysis]

RaisedHTTPException == [status |-> "raised", exception |-> "HTTPException"]

\* app/routes/grading.py, lines 71-105: every exception becomes an HTTPException
check_grade_against_rubric_endpoint(sub, rinfo) ==
    IF sub = None \/ rinfo = None THEN RaisedHTTPException
    ELSE IF Get(rinfo[1], "rubric", None) = None \/ Get(rinfo[1], "rubric", None)[1] = <<>>
    THEN [status |-> "no_rubric", submission |-> sub[1]]
    ELSE LET analysis == canvas_api_analyze_grade_against_rubric(
                            sub[1], rinfo[1], Get(sub[1], "rubric_assessment", EmptyDict))
         IN  IF analysis.status = "raised" THEN RaisedHTTPException
             ELSE [status |-> "completed", submission |-> sub[1],
                   rubric |-> rinfo[1], analysis |-> analysis]

\* grade_check.get("analysis", {}).get("has_discrepancy", False)
HasDiscrepancy(gc) ==
    /\ "analysis" \in DOMAIN gc
    /\ Get(gc.analysis, "has_discrepancy", FALSE)

(***************************************************************************)
(* monitor_grades.  A pass belongs to the trigger that started it: the     *)
(* interval job of a scheduler, or the /monitor-grades-now endpoint.  Each *)
(* action is the code between two awaits.                                  *)
(***************************************************************************)
Triggers == {"scheduled", "manual"}

\* main.py schedules the route version and core/scheduler.py the service
\* version; the endpoint of routes/canvas.py runs the route version
ImplsOf(t) == IF t = "manual" THEN {"routes"} ELSE {"routes", "service"}

Idle(p) == pc[p] \in {"idle", "done", "aborted"}

CurrentCourse(p) == courses[p][ci[p]]

CurrentAssignment(p) == assignments[p][ai[p]]

CurrentKey(p) == CacheKey(CurrentCourse(p).id, CurrentAssignment(p).id)

\* the for loops move on: the next assignment, else the next course, else
\* the code after the loops
Advance(p) ==
    IF ai[p] < Len(assignments[p])
    THEN /\ ai' = [ai EXCEPT ![p] = @ + 1]
         /\ pc' = [pc EXCEPT ![p] = "assignment"]
         /\ UNCHANGED <<ci, assignments>>
    ELSE IF ci[p] < Len(courses[p])
    THEN /\ ci' = [ci EXCEPT ![p] = @ + 1]
         /\ pc' = [pc EXCEPT ![p] = "fetch_assignments"]
         /\ ai' = [ai EXCEPT ![p] = 0]
         /\ assignments' = [assignments EXCEPT ![p] = <<>>]
    ELSE /\ pc' = [pc EXCEPT ![p] = "save"]
         /\ ai' = [ai EXCEPT ![p] = 0]
         /\ ci' = [ci EXCEPT ![p] = 0]
         /\ assignments' = [assignments EXCEPT ![p] = <<>>]

\* the locals and the history of the passes after StartPass(p): those of p are
\* set to start, those of a pass that has ended are gone, the others stay
Started(var, p, start, gone) ==
    [q \in Triggers |-> IF q = p THEN start ELSE IF Idle(q) THEN gone ELSE var[q]]

\* lines 27-32 (service), 107-112 (routes): the pass loads the cache file
StartPass(p, m) ==
    /\ Idle(p)
    /\ passes < MaxPasses
    /\ passes' = passes + 1
    /\ pc' = Started(pc, p, "fetch_courses", "idle")
    /\ impl' = Started(impl, p, m, "none")
    /\ grades_cache' = Started(grades_cache, p, persisted, <<>>)
    /\ courses' = Started(courses, p, <<>>, <<>>)
    /\ ci' = Started(ci, p, 0, 0)
    /\ assignments' = Started(assignments, p, <<>>, <<>>)
    /\ ai' = Started(ai, p, 0, 0)
    /\ current' = Started(current, p, None, None)
    /\ grade_check' = Started(grade_check, p, None, None)
    /\ loaded' = Started(loaded, p, persisted, <<>>)
    /\ visited' = Started(visited, p, {}, {})
    /\ fetched' = Started(fetched, p, <<>>, <<>>)
    /\ checked' = Started(checked, p, <<>>, <<>>)
    /\ errored' = Started(errored, p, {}, {})
    /\ emitted' = Started(emitted, p, <<>>, <<>>)
    /\ failed' = Started(failed, p, {}, {})
    /\ saves' = Started(saves, p, 0, 0)
    /\ UNCHANGED <<canvas, persisted, gradeChanges, notified, analyzerVars, profileVars>>

\* lines 34-36 / 114-116: a failure reaches the outer except, which ends the pass
FetchCourses(p) ==
    /\ pc[p] = "fetch_courses"
    /\ \/ /\ courses' = [courses EXCEPT ![p] = CourseList]
          /\ IF CourseList = <<>>
             THEN pc' = [pc EXCEPT ![p] = "save"] /\ UNCHANGED ci
             ELSE /\ pc' = [pc EXCEPT ![p] = "fetch_assignments"]
                  /\ ci' = [ci EXCEPT ![p] = 1]
       \/ /\ pc' = [pc EXCEPT ![p] = "aborted"]
          /\ UNCHANGED <<courses, ci>>
    /\ UNCHANGED <<worldVars, impl, grades_cache, assignments, ai, current, grade_check,
                   historyVars, analyzerVars, profileVars>>

\* a failure after which the cache is written all the same
FetchAssignments_SaveOnFailure(p) ==
    /\ pc[p] = "fetch_assignments"
    /\ \/ LET list == AssignmentsOf(CurrentCourse(p).id)
          IN  /\ assignments' = [assignments EXCEPT ![p] = list]
              /\ ai' = [ai EXCEPT ![p] = 1]
              /\ pc' = [pc EXCEPT ![p] = "assignment"]
              /\ UNCHANGED ci
       \/ /\ pc' = [pc EXCEPT ![p] = "save"]
          /\ UNCHANGED <<ci, assignments, ai>>
    /\ UNCHANGED <<worldVars, impl, grades_cache, courses, current, grade_check,
                   historyVars, analyzerVars, profileVars>>

\* lines 38-42 / 118-122: a failure reaches the outer except, which ends the pass
FetchAssignments(p) ==
    /\ pc[p] = "fetch_assignments"
    /\ \/ LET list == AssignmentsOf(CurrentCourse(p).id)
          IN  IF list # <<>>
              THEN /\ assignments' = [assignments EXCEPT ![p] = list]
                   /\ ai' = [ai EXCEPT ![p] = 1]
                   /\ pc' = [pc EXCEPT ![p] = "assignment"]
                   /\ UNCHANGED ci
              ELSE Advance(p)
       \/ /\ pc' = [pc EXCEPT ![p] = "aborted"]
          /\ UNCHANGED <<ci, assignments, ai>>
    /\ UNCHANGED <<worldVars, impl, grades_cache, courses, current, grade_check,
                   historyVars, analyzerVars, profileVars>>

\* lines 44-49 / 124-129: an assignment without submitted work is skipped
SkipAssignment(p) ==
    /\ pc[p] = "assignment"
    /\ ~Get(CurrentAssignment(p), "has_submitted_submissions", FALSE)
    /\ visited' = [visited EXCEPT ![p] = @ \cup {CurrentKey(p)}]
    /\ Advance(p)
    /\ UNCHANGED <<worldVars, impl, grades_cache, courses, current, grade_check,
                   loaded, fetched, checked, errored, emitted, failed, saves, analyzerVars, profileVars>>

\* a fetch failure that no per-assignment handler catches: it ends the pass
FetchSubmissionFails_Uncaught(p) ==
    /\ pc[p] = "assignment"
    /\ Get(CurrentAssignment(p), "has_submitted_submissions", FALSE)
    /\ visited' = [visited EXCEPT ![p] = @ \cup {CurrentKey(p)}]
    /\ failed' = [failed EXCEPT ![p] = @ \cup {CurrentKey(p)}]
    /\ pc' = [pc EXCEPT ![p] = "aborted"]
    /\ UNCHANGED <<worldVars, impl, grades_cache, courses, ci, assignments, ai, current,
                   grade_check, loaded, fetched, checked, errored, emitted, saves, analyzerVars, profileVars>>

\* lines 98-100 / 190-192 after a failed fetch at line 53 / 133
FetchSubmissionFails(p) ==
    /\ pc[p] = "assignment"
    /\ Get(CurrentAssignment(p), "has_submitted_submissions", FALSE)
    /\ visited' = [visited EXCEPT ![p] = @ \cup {CurrentKey(p)}]
    /\ failed' = [failed EXCEPT ![p] = @ \cup {CurrentKey(p)}]
    /\ Advance(p)
    /\ UNCHANGED <<worldVars, impl, grades_cache, courses, current, grade_check,
                   loaded, fetched, checked, errored, emitted, saves, analyzerVars, profileVars>>

\* a comparison that knows the new grades only, not the changed ones
NewOrChanged_NewOnly(cache, key, sub) == key \notin DOMAIN cache

\* the comparison of lines 63 and 79 / 143 and 165: a new or a changed grade
NewOrChanged(cache, key, sub) ==
    \/ key \notin DOMAIN cache
    \/ Get(cache[key], "score", None) # Get(sub, "score", None)

\* lines 51-63, 79, 95-96 / 131-143, 165, 187-188: the submission is fetched;
\* one that is not graded is skipped, an unchanged grade is stored again, a
\* new or changed grade goes to the rubric check
FetchSubmission(p) ==
    /\ pc[p] = "assignment"
    /\ Get(CurrentAssignment(p), "has_submitted_submissions", FALSE)
    /\ LET key == CurrentKey(p)
           sub == fetch_my_canvas_grade(key)
       IN  /\ visited' = [visited EXCEPT ![p] = @ \cup {key}]
           /\ fetched' = [fetched EXCEPT ![p] = Put(@, key, sub)]
           /\ IF GetOpt(sub, "workflow_state") # Some("graded")
              THEN Advance(p) /\ UNCHANGED <<grades_cache, current>>
              ELSE IF NewOrChanged(grades_cache[p], key, sub)
              THEN /\ pc' = [pc EXCEPT ![p] = "check"]
                   /\ current' = [current EXCEPT ![p] = Some(sub)]
                   /\ UNCHANGED <<grades_cache, ci, assignments, ai>>
              ELSE /\ grades_cache' = [grades_cache EXCEPT ![p] = UpdateCache(@, key, sub)]
                   /\ Advance(p)
                   /\ UNCHANGED current
    /\ UNCHANGED <<worldVars, impl, courses, grade_check,
                   loaded, checked, errored, emitted, failed, saves, analyzerVars, profileVars>>

\* lines 68-70, 84-86 / 148-150, 170-172: the rubric check fetches the submission
\* and the rubric again; the service version reports a failure as a status, the
\* route version raises, which ends the iteration at line 190
CheckGrade(p) ==
    /\ pc[p] = "check"
    /\ \E fetch \in {"ok", "submission_fails", "rubric_fails"} :
        LET key == CurrentKey(p)
            sub == IF fetch = "submission_fails" THEN None
                   ELSE Some(fetch_my_canvas_grade(key))
            rinfo == IF fetch = "ok" THEN Some(fetch_assignment_rubric(key[2])) ELSE None
            gc == IF impl[p] = "service"
                  THEN check_grade_against_rubric(sub, rinfo)
                  ELSE check_grade_against_rubric_endpoint(sub, rinfo)
        IN  /\ checked' = [checked EXCEPT ![p] = Put(@, key, HasDiscrepancy(gc))]
            /\ errored' = [errored EXCEPT ![p] =
                                IF gc.status \in {"error", "raised"}
                                THEN @ \cup {key} ELSE @ \ {key}]
            /\ IF gc.status = "raised"
               THEN /\ failed' = [failed EXCEPT ![p] = @ \cup {key}]
                    /\ current' = [current EXCEPT ![p] = None]
                    /\ Advance(p)
                    /\ UNCHANGED <<grades_cache, grade_check>>
               ELSE IF HasDiscrepancy(gc)
               THEN /\ pc' = [pc EXCEPT ![p] = "notify"]
                    /\ grade_check' = [grade_check EXCEPT ![p] = Some(gc)]
                    /\ UNCHANGED <<grades_cache, current, failed, ci, assignments, ai>>
               ELSE /\ grades_cache' = [grades_cache EXCEPT ![p] = UpdateCache(@, key, current[p][1])]
                    /\ current' = [current EXCEPT ![p] = None]
                    /\ Advance(p)
                    /\ UNCHANGED <<grade_check, failed>>
    /\ UNCHANGED <<worldVars, impl, courses, loaded, visited, fetched, emitted, saves,
                   analyzerVars, profileVars>>

\* what the notification sink can answer.  Service (lines 73-77, with
\* email_service.py lines 12-70): the draft is None after a failure, send_email
\* returns False after one.  Routes (lines 153-163, with routes/email.py lines
\* 57-128): the draft runs the rubric check again and raises after any failure.
SinkOutcomes(p, key) ==
    IF impl[p] = "service"
    THEN {"sent", "send_failed", "draft_failed"}
    ELSE LET again == check_grade_against_rubric_endpoint(
                          Some(fetch_my_canvas_grade(key)),
                          Some(fetch_assignment_rubric(key[2])))
         IN  {"draft_raised"}
                \cup (IF HasDiscrepancy(again) THEN {"sent", "send_failed"}
                      ELSE {"no_discrepancy"})

\* send_email delivered a notification about the grade of sub: one more for
\* that key and score
Sent(log, key, sub) ==
    LET grade == <<key, Get(sub, "score", None)>>
    IN  Put(log, grade, Get(log, grade, 0) + 1)

\* lines 70-77, 86-96 / 150-163, 172-188: the discrepancy goes to the sink, and
\* unless the sink raised the submission is stored in the pass's cache
Notify(p) ==
    /\ pc[p] = "notify"
    /\ \E outcome \in SinkOutcomes(p, CurrentKey(p)) :
        LET key == CurrentKey(p)
        IN  /\ emitted' = [emitted EXCEPT ![p] = Put(@, key, outcome)]
            /\ notified' = IF outcome = "sent"
                           THEN Sent(notified, key, current[p][1])
                           ELSE notified
            /\ IF outcome = "draft_raised"
               THEN /\ failed' = [failed EXCEPT ![p] = @ \cup {key}]
                    /\ UNCHANGED grades_cache
               ELSE /\ grades_cache' = [grades_cache EXCEPT ![p] = UpdateCache(@, key, current[p][1])]
                    /\ UNCHANGED failed
    /\ current' = [current EXCEPT ![p] = None]
    /\ grade_check' = [grade_check EXCEPT ![p] = None]
    /\ Advance(p)
    /\ UNCHANGED <<canvas, persisted, gradeChanges, passes, impl, courses, loaded, visited,
                   fetched, checked, errored, saves, analyzerVars, profileVars>>

\* lines 102-103 / 194-195, with save_grades_cache: the whole cache is written
SaveCache(p) ==
    /\ pc[p] = "save"
    /\ persisted' = grades_cache[p]
    /\ saves' = [saves EXCEPT ![p] = @ + 1]
    /\ pc' = [pc EXCEPT ![p] = "done"]
    /\ UNCHANGED <<canvas, gradeChanges, passes, notified, impl, grades_cache, courses,
                   ci, assignments, ai, current, grade_check,
                   loaded, visited, fetched, checked, errored, emitted, failed, analyzerVars, profileVars>>

\* the grader records, changes or withdraws a grade in Canvas
GradeChange(key) ==
    /\ gradeChanges < MaxGradeChanges
    /\ gradeChanges' = gradeChanges + 1
    /\ \E score \in {None} \cup {Some(g) : g \in GradeScores} :
        /\ score # canvas[key]
        /\ canvas' = [canvas EXCEPT ![key] = score]
    /\ notified' = [n \in {x \in DOMAIN notified : x[1] # key} |-> notified[n]]
    /\ UNCHANGED <<persisted, passes, passVars, historyVars, analyzerVars, profileVars>>

\* no cache file yet, no pass started
InitPasses ==
    /\ persisted = <<>>
    /\ gradeChanges = 0
    /\ passes = 0
    /\ notified = <<>>
    /\ pc = [p \in Triggers |-> "idle"]
    /\ impl = [p \in Triggers |-> "none"]
    /\ grades_cache = [p \in Triggers |-> <<>>]
    /\ courses = [p \in Triggers |-> <<>>]
    /\ ci = [p \in Triggers |-> 0]
    /\ assignments = [p \in Triggers |-> <<>>]
    /\ ai = [p \in Triggers |-> 0]
    /\ current = [p \in Triggers |-> None]
    /\ grade_check = [p \in Triggers |-> None]
    /\ loaded = [p \in Triggers |-> <<>>]
    /\ visited = [p \in Triggers |-> {}]
    /\ fetched = [p \in Triggers |-> <<>>]
    /\ checked = [p \in Triggers |-> <<>>]
    /\ errored = [p \in Triggers |-> {}]
    /\ emitted = [p \in Triggers |-> <<>>]
    /\ failed = [p \in Triggers |-> {}]
    /\ saves = [p \in Triggers |-> 0]

InitMonitorIdle ==
    /\ canvas = [k \in SubmittedKeys |-> None]
    /\ InitPasses

InitMonitor ==
    /\ canvas \in [SubmittedKeys -> {None} \cup {Some(g) : g \in GradeScores}]
    /\ InitPasses
    /\ submission = EmptyDict
    /\ rubric_info = EmptyDict
    /\ rubric_assessment = EmptyDict
    /\ report = [status |-> "not_run"]
    /\ analyzer = "none"
    /\ InitProfileIdle

\* the passes of SpecMonitor run one after another: a pass starts only when
\* no other pass is under way
NoOtherPass(p) == \A q \in Triggers \ {p} : Idle(q)

NextMonitor ==
    \/ \E p \in Triggers : \E m \in ImplsOf(p) : NoOtherPass(p) /\ StartPass(p, m)
    \/ \E p \in Triggers : FetchCourses(p)
    \/ \E p \in Triggers : FetchAssignments(p)
    \/ \E p \in Triggers : SkipAssignment(p)
    \/ \E p \in Triggers : FetchSubmissionFails(p)
    \/ \E p \in Triggers : FetchSubmission(p)
    \/ \E p \in Triggers : CheckGrade(p)
    \/ \E p \in Triggers : Notify(p)
    \/ \E p \in Triggers : SaveCache(p)
    \/ \E key \in SubmittedKeys : GradeChange(key)

SpecMonitor == InitMonitor /\ [][NextMonitor]_vars

\* The program as deployed: nothing in main.py, core/scheduler.py or
\* routes/canvas.py makes a trigger wait for a pass that is under way.  The
\* interval job and the background task are coroutines on one event loop,
\* and a pass gives the loop away at each of its awaits.
NextOverlap ==
    \/ \E p \in Triggers : \E m \in ImplsOf(p) : StartPass(p, m)
    \/ \E p \in Triggers : FetchCourses(p)
    \/ \E p \in Triggers : FetchAssignments(p)
    \/ \E p \in Triggers : SkipAssignment(p)
    \/ \E p \in Triggers : FetchSubmissionFails(p)
    \/ \E p \in Triggers : FetchSubmission(p)
    \/ \E p \in Triggers : CheckGrade(p)
    \/ \E p \in Triggers : Notify(p)
    \/ \E p \in Triggers : SaveCache(p)
    \/ \E key \in SubmittedKeys : GradeChange(key)

SpecOverlap == InitMonitor /\ [][NextOverlap]_vars

(***************************************************************************)
(* The analyzer's specification: the inputs are drawn by Init, and each    *)
(* action is one call of the analyzer.  The monitor stands still.          *)
(***************************************************************************)
NotRun == [status |-> "not_run"]

InitAnalyzer ==
    /\ submission \in Submissions
    /\ rubric_info \in RubricInfos
    /\ rubric_assessment \in AssessmentMaps
    /\ report = NotRun
    /\ analyzer = "none"
    /\ InitMonitorIdle
    /\ InitProfileIdle

AnalyzeGradingService ==
    /\ analyzer = "none"
    /\ report' = analyze_grade_against_rubric(submission, rubric_info, rubric_assessment)
    /\ analyzer' = "grading_service"
    /\ UNCHANGED <<submission, rubric_info, rubric_assessment, monitorVars, profileVars>>

AnalyzeCanvasApi ==
    /\ analyzer = "none"
    /\ report' = canvas_api_analyze_grade_against_rubric(submission, rubric_info,
                                                         rubric_assessment)
    /\ analyzer' = "canvas_api"
    /\ UNCHANGED <<submission, rubric_info, rubric_assessment, monitorVars, profileVars>>

NextAnalyzer == AnalyzeGradingService \/ AnalyzeCanvasApi

SpecAnalyzer == InitAnalyzer /\ [][NextAnalyzer]_vars

(***************************************************************************)
(* The marking predictor, app/services/ml_marking_predictor.py.  One       *)
(* instructor identity is modelled.  Percentages are integers in           *)
(* hundredths of a percentage point (60.0% is 6000); means and standard    *)
(* deviations are rounded down to that grid (float rounding is not         *)
(* modelled).  What scikit-learn computes is opaque: a fitted estimator is *)
(* named by the training call that fitted it and by the number of rows it  *)
(* was fitted on, and its outputs are drawn from small sets.               *)
(***************************************************************************)
MaxDataPoints == 11

MaxTrainings == 1

MaxUnlabeled == 5

\* data points as collect_marking_patterns writes them (routes/canvas.py
\* 389-409): a graded quiz at 60%, a graded quiz at 80%, an assignment with
\* no points possible (its percentage is null), and a data point of a file
\* written by another tool, without feedback_data
QuizLow ==
    [assignment_type |-> "quiz", points_possible |-> Some(100),
     percentage |-> Some(6000),
     feedback_data |-> [feedback_length |-> 0, feedback_sentiment |-> 0]]

QuizHigh ==
    [assignment_type |-> "quiz", points_possible |-> Some(100),
     percentage |-> Some(8000),
     feedback_data |-> [feedback_length |-> 240, feedback_sentiment |-> 10]]

Unlabeled ==
    [assignment_type |-> "essay", points_possible |-> Some(0),
     percentage |-> None,
     feedback_data |-> [feedback_length |-> 60, feedback_sentiment |-> 0]]

NoFeedback ==
    [assignment_type |-> "lab", points_possible |-> Some(100),
     percentage |-> Some(7000)]

Repeat(x, n) == [i \in 1..n |-> x]

\* quizzes graded 60%, 80%, 60%, ... in turn
Quizzes(n) == [i \in 1..n |-> IF i % 2 = 1 THEN QuizLow ELSE QuizHigh]

\* a corpus of graded quizzes, assignments without a percentage and data
\* points without feedback_data
Corpus(quizzes, unlabeled, bare) ==
    Quizzes(quizzes) \o Repeat(Unlabeled, unlabeled) \o Repeat(NoFeedback, bare)

Corpora ==
    {Corpus(t[1], t[2], t[3]) :
        t \in {u \in (0..MaxDataPoints) \X (0..MaxUnlabeled) \X (0..1) :
                    u[1] + u[2] + u[3] <= MaxDataPoints}}

\* the data file handed to train_model: missing (None), a JSON object
\* without data_points, or one with a list of data points
DataFiles ==
    {None, Some(EmptyDict)} \cup {Some([data_points |-> c]) : c \in Corpora}

RECURSIVE SumSeq(_)
SumSeq(xs) == IF xs = <<>> THEN 0 ELSE Head(xs) + SumSeq(Tail(xs))

RECURSIVE SumSquares(_)
SumSquares(xs) == IF xs = <<>> THEN 0 ELSE Head(xs) * Head(xs) + SumSquares(Tail(xs))

\* the largest r in lo..hi with r * r <= v
RECURSIVE SqrtBetween(_, _, _)
SqrtBetween(lo, hi, v) ==
    IF lo >= hi THEN lo
    ELSE LET mid == (lo + hi + 1) \div 2
         IN  IF mid * mid <= v THEN SqrtBetween(mid, hi, v)
             ELSE SqrtBetween(lo, mid - 1, v)

\* np.mean of a non-empty list
Mean(xs) == SumSeq(xs) \div Len(xs)

\* the values in tenths of a point, for sums of squares that stay small
Tenths(xs) == [i \in 1..Len(xs) |-> xs[i] \div 10]

\* np.var of a non-empty list: the mean squared deviation, in square tenths
Variance(xs) ==
    LET ys == Tenths(xs)
        n == Len(ys)
    IN  (n * SumSquares(ys) - SumSeq(ys) * SumSeq(ys)) \div (n * n)

\* np.std of a non-empty list: the population standard deviation
Std(xs) ==
    LET ys == Tenths(xs)
        n == Len(ys)
        spread == n * SumSquares(ys) - SumSeq(ys) * SumSeq(ys)
    IN  10 * (SqrtBetween(0, 10000, spread) \div n)

\* the data points that carry a percentage (lines 98-102, 214, 237)
Labeled(data_points) ==
    SelectSeq(data_points, LAMBDA dp : GetNullable(dp, "percentage") # None)

Percentages(data_points) ==
    LET ls == Labeled(data_points)
    IN  [i \in 1..Len(ls) |-> ls[i].percentage[1]]

TypeOf(dp) == Get(dp, "assignment_type", "other")

OfType(data_points, atype) ==
    SelectSeq(data_points, LAMBDA dp : TypeOf(dp) = atype)

\* lines 209-223: per assignment type with at least one percentage, the
\* average, the standard deviation and the count of its percentages
TypeTendencies(data_points) ==
    LET types == {TypeOf(data_points[i]) : i \in 1..Len(data_points)}
        scored == {atype \in types : Percentages(OfType(data_points, atype)) # <<>>}
    IN  [atype \in scored |->
            LET scores == Percentages(OfType(data_points, atype))
            IN  [average |-> Mean(scores), std |-> Std(scores),
                 count |-> Len(scores)]]

\* line 226: dp["feedback_data"] raises KeyError when a data point has none
HasFeedbackData(data_points) ==
    \A i \in 1..Len(data_points) : "feedback_data" \in DOMAIN data_points[i]

\* lines 226-234, for a non-empty list of data points that all have feedback_data
FeedbackStyle(data_points) ==
    LET lengths == [i \in 1..Len(data_points) |->
                        data_points[i].feedback_data.feedback_length]
        sentiments == [i \in 1..Len(data_points) |->
                        data_points[i].feedback_data.feedback_sentiment]
    IN  [average_length |-> Mean(lengths),
         average_sentiment |-> Mean(sentiments),
         gives_detailed_feedback |-> SumSeq(lengths) > 100 * Len(lengths),
         generally_positive |-> SumSeq(sentiments) > 0]

\* lines 237-243
GradingStrictness(data_points) ==
    LET all_scores == Percentages(data_points)
    IN  IF all_scores = <<>>
        THEN [average_grade |-> 0, grade_variance |-> 0,
              is_strict |-> FALSE, is_lenient |-> FALSE]
        ELSE [average_grade |-> Mean(all_scores),
              grade_variance |-> Variance(all_scores),
              is_strict |-> SumSeq(all_scores) < 7500 * Len(all_scores),
              is_lenient |-> SumSeq(all_scores) > 8500 * Len(all_scores)]

\* lines 31-36
EmptyPatterns ==
    [assignment_type_tendencies |-> EmptyDict,
     feedback_style |-> EmptyDict,
     grading_strictness |-> EmptyDict,
     consistency_metrics |-> EmptyDict]

\* an estimator: not fitted, or fitted by the training-th call on rows rows
Unfitted == [fitted |-> FALSE, training |-> 0, rows |-> 0]

Fitted(training, rows) == [fitted |-> TRUE, training |-> training, rows |-> rows]

\* lines 25-38: the object before load_model
NewPredictor ==
    [grade_predictor |-> Unfitted,
     anomaly_detector |-> Unfitted,
     scaler |-> Unfitted,
     marking_patterns |-> EmptyPatterns,
     is_trained |-> FALSE]

\* what pickle.load cannot read: the file save_model left when pickle.dump
\* failed after open(..., 'wb') had emptied it
Torn == [pickle |-> "truncated"]

\* lines 300-307: the dict save_model pickles
Pickled(self, stamp) ==
    [pickle |-> "ok",
     data |-> [grade_predictor |-> self.grade_predictor,
               anomaly_detector |-> self.anomaly_detector,
               scaler |-> self.scaler,
               marking_patterns |-> self.marking_patterns,
               is_trained |-> self.is_trained,
               last_updated |-> stamp]]

\* a file pickled by a version of the program that kept no pattern summary
OldFormat ==
    [pickle |-> "ok",
     data |-> [grade_predictor |-> Fitted(0, 5),
               anomaly_detector |-> Fitted(0, 5),
               scaler |-> Fitted(0, 5),
               is_trained |-> TRUE]]

\* lines 319-323, in this order
LoadOrder ==
    <<"grade_predictor", "anomaly_detector", "scaler", "marking_patterns", "is_trained">>

\* lines 319-328: the attributes are assigned one by one; a missing key
\* raises KeyError, which the except answers with is_trained = False
RECURSIVE LoadFields(_, _, _)
LoadFields(self, data, keys) ==
    IF keys = <<>> THEN self
    ELSE IF Head(keys) \notin DOMAIN data
         THEN [self EXCEPT !.is_trained = FALSE]
         ELSE LoadFields([self EXCEPT ![Head(keys)] = data[Head(keys)]],
                         data, Tail(keys))

\* a load that trusts the file: a failure leaves is_trained as it was assigned
load_model_KeepFlag(self, file) ==
    IF file = None THEN self
    ELSE IF file[1].pickle # "ok" THEN self
    ELSE [k \in DOMAIN self |->
            IF k \in DOMAIN file[1].data THEN file[1].data[k] ELSE self[k]]

\* lines 312-328
load_model(self, file) ==
    IF file = None THEN self
    ELSE IF file[1].pickle # "ok" THEN [self EXCEPT !.is_trained = FALSE]
    ELSE LoadFields(self, file[1].data, LoadOrder)

\* lines 19-39: __init__
LecturerMarkingPredictor(file) == load_model(NewPredictor, file)

\* line 91
MinDataPoints == 5

\* line 111
HoldOutAbove == 10

\* line 91: len(data_points) < 5
TooFewDataPoints(data_points) == Len(data_points) < MinDataPoints

\* lines 111-122: the rows the regressor is fitted on; train_test_split
\* with test_size=0.2 holds out ceil(0.2 * n) rows
TrainRows(n) == IF n > HoldOutAbove THEN n - ((n + 4) \div 5) ELSE n

\* lines 116-118 and 137-140: what the evaluation on the held-out rows may
\* measure (mae in hundredths of a point, r2 in hundredths), or null
Evaluations(n) ==
    IF n > HoldOutAbove
    THEN {[mae |-> Some(0), r2 |-> Some(100)], [mae |-> Some(1250), r2 |-> Some(-50)]}
    ELSE {[mae |-> None, r2 |-> None]}

ErrorResult(message) == [status |-> "error", message |-> message]

FitOps == {"scaler.fit_transform", "grade_predictor.fit", "anomaly_detector.fit"}

\* lines 298-310: the file after save_model, which ends in one of three
\* ways: the file written, open() refused, or pickle.dump failing after
\* open(..., 'wb') emptied the file
save_model(self, file, stamp, outcome) ==
    IF outcome = "written" THEN Some(Pickled(self, stamp))
    ELSE IF outcome = "open_failed" THEN file
    ELSE Some(Torn)

\* lines 206-243 up to the KeyError of line 226: only the type tendencies
\* have been replaced
TendenciesOnly(patterns, data_points) ==
    [patterns EXCEPT !.assignment_type_tendencies = TypeTendencies(data_points)]

\* lines 206-243 run to the end
AnalyzedPatterns(patterns, data_points) ==
    [patterns EXCEPT !.assignment_type_tendencies = TypeTendencies(data_points),
                     !.feedback_style = FeedbackStyle(data_points),
                     !.grading_strictness = GradingStrictness(data_points)]

\* a refit that clears the trained flag until the training is complete
Refit_ClearFlag(self, t, n) ==
    [self EXCEPT !.scaler = Fitted(t, n),
                 !.grade_predictor = Fitted(t, TrainRows(n)),
                 !.anomaly_detector = Fitted(t, n),
                 !.is_trained = FALSE]

\* lines 108-126: the scaler, the regressor and the anomaly detector are
\* fitted in place on the n labeled rows
Refit(self, t, n) ==
    [self EXCEPT !.scaler = Fitted(t, n),
                 !.grade_predictor = Fitted(t, TrainRows(n)),
                 !.anomaly_detector = Fitted(t, n)]

\* lines 84-145: every way train_model(data_file) can end on the object self
\* with the model file file, as the t-th training: the object and the file
\* afterwards, the result returned and the fits that ran
train_model(self, file, data_file, t) ==
    LET Fail(s, f, message, ran) ==
            [self |-> s, file |-> f, result |-> ErrorResult(message), ran |-> ran]
    IN
    IF data_file = None
    THEN {Fail(self, file, "[Errno 2] No such file or directory", {})}
    ELSE
    LET data_points == Get(data_file[1], "data_points", <<>>) IN
    IF TooFewDataPoints(data_points)
    THEN {Fail(self, file, "Need at least 5 data points to train model", {})}
    ELSE
    LET X == Labeled(data_points) IN
    IF X = <<>>
    THEN \* fit_transform rejects the empty matrix; whether the scaler has
         \* been reset by then is the library's business
         {Fail([self EXCEPT !.scaler = sc], file,
               "Expected 2D array, got 1D array instead", {"scaler.fit_transform"}) :
            sc \in {self.scaler, Unfitted}}
    ELSE
    LET fitted == Refit(self, t, Len(X)) IN
    IF ~HasFeedbackData(data_points)
    THEN {Fail([fitted EXCEPT !.marking_patterns =
                                TendenciesOnly(self.marking_patterns, data_points)],
               file, "'feedback_data'", FitOps)}
    ELSE
    LET trained == [fitted EXCEPT !.marking_patterns =
                                    AnalyzedPatterns(self.marking_patterns, data_points),
                                  !.is_trained = TRUE]
    IN  {[self |-> trained,
          file |-> save_model(trained, file, t, "written"),
          result |-> [status |-> "success",
                      data_points_used |-> Len(X),
                      model_performance |-> ev,
                      patterns_discovered |-> trained.marking_patterns],
          ran |-> FitOps] : ev \in Evaluations(Len(X))}
        \cup {Fail(trained, save_model(trained, file, t, "open_failed"),
                   "[Errno 13] Permission denied", FitOps),
              Fail(trained, save_model(trained, file, t, "dump_failed"),
                   "[Errno 28] No space left on device", FitOps)}

\* round(x, 1) of a value in hundredths (a half goes to the even tenth)
RoundTenth(x) ==
    LET r == x % 10
        down == x - r
    IN  IF r < 5 THEN down
        ELSE IF r > 5 THEN down + 10
        ELSE IF (down \div 10) % 2 = 0 THEN down ELSE down + 10

\* the assignment data handed to predict and detect: a quiz, an essay, an
\* assignment without a type, and quizzes whose points possible are 0, null
\* or not given
AssignmentInputs ==
    {[assignment_type |-> "quiz", points_possible |-> Some(100)],
     [assignment_type |-> "essay", points_possible |-> Some(100)],
     [points_possible |-> Some(100)],
     [assignment_type |-> "quiz", points_possible |-> Some(0)],
     [assignment_type |-> "quiz", points_possible |-> None],
     [assignment_type |-> "quiz"]}

\* what grade_predictor.predict may return, in hundredths of a percent
RegressorOutputs == {5000, 7004}

\* what the anomaly detector may return: decision_function and predict
AnomalyOutputs ==
    {[anomaly_score |-> -12, is_anomaly |-> TRUE],
     [anomaly_score |-> 8, is_anomaly |-> FALSE]}

\* the actual grade in hundredths of a point, or null
ActualGrades ==
    {None} \cup {Some(g) : g \in {5000, 6500, 6501, 7000, 7001, 7250, 7251, 8000, 8001}}

PredictOps ==
    <<"scaler.transform", "grade_predictor.predict",
      "anomaly_detector.decision_function", "anomaly_detector.predict">>

Ran(n) == {PredictOps[i] : i \in 1..n}

TypeData(self, assignment_type) ==
    GetOpt(self.marking_patterns.assignment_type_tendencies, assignment_type)

\* lines 245-255, in hundredths
calculate_confidence(self, assignment_data) ==
    LET type_data == TypeData(self, Get(assignment_data, "assignment_type", "other"))
    IN  IF type_data = None THEN 30
        ELSE LET confidence == 30 + type_data[1].count * 10
             IN  IF confidence > 90 THEN 90 ELSE confidence

\* line 264
DefaultThreshold == 1500

\* a threshold of one standard deviation
get_anomaly_threshold_OneStd(self, assignment_type) ==
    LET type_data == TypeData(self, assignment_type)
    IN  IF type_data # None /\ type_data[1].std > 0
        THEN type_data[1].std
        ELSE DefaultThreshold

\* lines 257-264
get_anomaly_threshold(self, assignment_type) ==
    LET type_data == TypeData(self, assignment_type)
    IN  IF type_data # None /\ type_data[1].std > 0
        THEN type_data[1].std * 2
        ELSE DefaultThreshold

\* lines 266-286
explain_prediction(self, assignment_data, predicted_percentage) ==
    LET assignment_type == Get(assignment_data, "assignment_type", "other")
        type_data == TypeData(self, assignment_type)
    IN  [based_on |->
            IF type_data # None
            THEN Some([count |-> type_data[1].count, similar |-> assignment_type,
                       avg |-> RoundTenth(type_data[1].average)])
            ELSE None,
         verdict |->
            IF predicted_percentage > 8500 THEN "high-quality work"
            ELSE IF predicted_percentage > 7500 THEN "good work with minor issues"
            ELSE IF predicted_percentage > 6500 THEN "average work needing improvement"
            ELSE "significant improvement"]

\* lines 288-296
explain_anomaly(actual, predicted, assignment_data) ==
    [direction |-> IF actual - predicted > 0 THEN "higher" ELSE "lower",
     by |-> RoundTenth(Abs(actual - predicted)),
     for |-> Get(assignment_data, "assignment_type", "assignment")]

\* a predict that goes on without the trained flag
NotTrained_Never(self) == FALSE

\* line 149
NotTrained(self) == ~self.is_trained

\* lines 147-177: every way predict_expected_grade can end when the regressor
\* would answer raw and the anomaly detector anomaly: the result and the
\* sub-model operations that ran
predict_expected_grade(self, assignment_data, raw, anomaly) ==
    LET points_possible == Get(assignment_data, "points_possible", Some(100))
        Caught(message, n) == [result |-> ErrorResult(message), ran |-> Ran(n)]
    IN
    IF NotTrained(self)
    THEN {[result |-> ErrorResult("Model not trained yet"), ran |-> {}]}
    ELSE IF ~self.scaler.fitted
    THEN {Caught("This StandardScaler instance is not fitted yet", 1)}
    ELSE IF ~self.grade_predictor.fitted
    THEN {Caught("This RandomForestRegressor instance is not fitted yet", 2)}
    ELSE IF ~self.anomaly_detector.fitted
    THEN {Caught("This IsolationForest instance is not fitted yet", 3)}
    ELSE IF points_possible = None
    THEN \* a null among the features: the library rejects it in one of its
         \* calls or lets it through as NaN, and then line 169 multiplies by None
         {Caught("Input contains NaN", n) : n \in 1..3}
            \cup {Caught("unsupported operand type(s) for *: 'float' and 'NoneType'", 4)}
    ELSE
    {[result |->
        [status |-> "success",
         predicted_percentage |-> RoundTenth(raw),
         predicted_score |-> RoundTenth((raw * points_possible[1]) \div 100),
         confidence |-> calculate_confidence(self, assignment_data),
         is_anomaly |-> anomaly.is_anomaly,
         anomaly_score |-> anomaly.anomaly_score,
         explanation |-> explain_prediction(self, assignment_data, raw)],
      ran |-> Ran(4)]}

Raised(exception) == [status |-> "raised", exception |-> exception]

\* a severity whose upper band starts at the threshold itself
Severity_HighAtThreshold(difference, threshold) ==
    IF difference > threshold THEN "high" ELSE "low"

\* line 202: difference > threshold * 1.5, then difference > threshold
Severity(difference, threshold) ==
    IF 2 * difference > 3 * threshold THEN "high"
    ELSE IF difference > threshold THEN "medium"
    ELSE "low"

\* lines 179-204, after a prediction that succeeded
AnomalyReport(self, actual_grade, assignment_data, prediction) ==
    LET points_possible == Get(assignment_data, "points_possible", Some(100))
    IN  IF actual_grade = None \/ points_possible = None THEN Raised("TypeError")
        ELSE IF points_possible[1] = 0 THEN Raised("ZeroDivisionError")
        ELSE
        LET predicted_percentage == prediction.predicted_percentage
            actual_percentage == (actual_grade[1] * 100) \div points_possible[1]
            difference == Abs(actual_percentage - predicted_percentage)
            threshold == get_anomaly_threshold(
                            self, Get(assignment_data, "assignment_type", "other"))
        IN  [status |-> "success",
             actual_percentage |-> actual_percentage,
             predicted_percentage |-> predicted_percentage,
             difference |-> RoundTenth(difference),
             is_significant_anomaly |-> difference > threshold,
             threshold |-> threshold,
             severity |-> Severity(difference, threshold),
             explanation |-> explain_anomaly(actual_percentage, predicted_percentage,
                                             assignment_data)]

\* lines 179-204
detect_grading_anomaly(self, actual_grade, assignment_data, raw, anomaly) ==
    {[result |-> IF p.result.status # "success" THEN p.result
                 ELSE AnomalyReport(self, actual_grade, assignment_data, p.result),
      ran |-> p.ran] :
        p \in predict_expected_grade(self, assignment_data, raw, anomaly)}

\* a report that asks for the modification time of a file that may not exist
get_model_stats_NoExistsCheck(self, file) ==
    IF file = None THEN Raised("FileNotFoundError")
    ELSE [instructor_id |-> "instructor",
          is_trained |-> self.is_trained,
          marking_patterns |-> self.marking_patterns,
          model_file |-> "marking_model_instructor.pkl",
          last_updated |-> Some("mtime")]

\* lines 336-344
get_model_stats(self, file) ==
    [instructor_id |-> "instructor",
     is_trained |-> self.is_trained,
     marking_patterns |-> self.marking_patterns,
     model_file |-> "marking_model_instructor.pkl",
     last_updated |-> IF file # None THEN Some("mtime") ELSE None]

(***************************************************************************)
(* The predictor's actions.  Each is one call on the object; the routes of *)
(* routes/canvas.py construct a new object for every request.              *)
(***************************************************************************)
othersIdle == UNCHANGED <<analyzerVars, monitorVars>>

\* lines 19-39: LecturerMarkingPredictor(instructor_id)
Construct ==
    /\ predictor' = Some(LecturerMarkingPredictor(model_file))
    /\ ml_call' = [op |-> "construct"]
    /\ ml_result' = [status |-> "constructed"]
    /\ ml_ran' = {}
    /\ UNCHANGED <<model_file, trainings>>
    /\ othersIdle

\* lines 84-145: predictor.train_model(data_file)
Train(data_file) ==
    /\ predictor # None
    /\ trainings < MaxTrainings
    /\ trainings' = trainings + 1
    /\ \E o \in train_model(predictor[1], model_file, data_file, trainings + 1) :
        /\ predictor' = Some(o.self)
        /\ model_file' = o.file
        /\ ml_result' = o.result
        /\ ml_ran' = o.ran
    /\ ml_call' = [op |-> "train", data_file |-> data_file,
                   was_trained |-> predictor[1].is_trained]
    /\ othersIdle

\* lines 147-177: predictor.predict_expected_grade(assignment_data)
Predict(assignment_data, raw, anomaly) ==
    /\ predictor # None
    /\ \E o \in predict_expected_grade(predictor[1], assignment_data, raw, anomaly) :
        /\ ml_result' = o.result
        /\ ml_ran' = o.ran
    /\ ml_call' = [op |-> "predict", assignment_data |-> assignment_data]
    /\ UNCHANGED <<model_file, predictor, trainings>>
    /\ othersIdle

\* lines 179-204: predictor.detect_grading_anomaly(actual_grade, assignment_data)
Detect(actual_grade, assignment_data, raw, anomaly) ==
    /\ predictor # None
    /\ \E o \in detect_grading_anomaly(predictor[1], actual_grade, assignment_data,
                                       raw, anomaly) :
        /\ ml_result' = o.result
        /\ ml_ran' = o.ran
    /\ ml_call' = [op |-> "detect", assignment_data |-> assignment_data,
                   actual_grade |-> actual_grade]
    /\ UNCHANGED <<model_file, predictor, trainings>>
    /\ othersIdle

\* lines 336-344: predictor.get_model_stats()
Stats ==
    /\ predictor # None
    /\ ml_result' = get_model_stats(predictor[1], model_file)
    /\ ml_ran' = {}
    /\ ml_call' = [op |-> "stats"]
    /\ UNCHANGED <<model_file, predictor, trainings>>
    /\ othersIdle

\* the model files a successful training of a corpus leaves behind
FilesTrainedOn(corpora, t) ==
    {o.file : o \in {x \in UNION {train_model(NewPredictor, None,
                                              Some([data_points |-> c]), t) :
                                  c \in corpora} :
                        x.result.status = "success"}}

\* the model file an earlier run of the program left: none, one that a failed
\* save tore, one of an older format, or one a training wrote
SeedCorpora == {Corpus(5, 0, 0)}

InitOthersIdle ==
    /\ submission = EmptyDict
    /\ rubric_info = EmptyDict
    /\ rubric_assessment = EmptyDict
    /\ report = [status |-> "not_run"]
    /\ analyzer = "none"
    /\ InitMonitorIdle

InitProfile ==
    /\ model_file \in {None, Some(Torn), Some(OldFormat)} \cup FilesTrainedOn(SeedCorpora, 0)
    /\ predictor = None
    /\ ml_call = [op |-> "none"]
    /\ ml_result = [status |-> "not_run"]
    /\ ml_ran = {}
    /\ trainings = 0
    /\ InitOthersIdle

\* the queries made between trainings: a quiz, and a quiz whose points
\* possible are null
ProbeAssignments ==
    {[assignment_type |-> "quiz", points_possible |-> Some(100)],
     [assignment_type |-> "quiz", points_possible |-> None]}

ProbeGrades == {Some(7251)}

ProbeOutputs == {5000}

\* the calls a request makes on a predictor it has constructed
NextProfile ==
    \/ Construct
    \/ \E data_file \in DataFiles : Train(data_file)
    \/ \E d \in ProbeAssignments, raw \in ProbeOutputs, an \in AnomalyOutputs :
            Predict(d, raw, an)
    \/ \E g \in ProbeGrades, d \in ProbeAssignments, raw \in ProbeOutputs,
          an \in AnomalyOutputs : Detect(g, d, raw, an)
    \/ Stats

SpecProfile == InitProfile /\ [][NextProfile]_vars

\* predict, detect and stats on a predictor constructed from any model file a
\* training can have written
InitQuery ==
    /\ model_file \in {None, Some(Torn), Some(OldFormat)} \cup FilesTrainedOn(Corpora, 0)
    /\ predictor = Some(LecturerMarkingPredictor(model_file))
    /\ ml_call = [op |-> "construct"]
    /\ ml_result = [status |-> "constructed"]
    /\ ml_ran = {}
    /\ trainings = 0
    /\ InitOthersIdle

NextQuery ==
    \/ \E d \in AssignmentInputs, raw \in RegressorOutputs, an \in AnomalyOutputs :
            Predict(d, raw, an)
    \/ \E g \in ActualGrades, d \in AssignmentInputs, raw \in RegressorOutputs,
          an \in AnomalyOutputs : Detect(g, d, raw, an)
    \/ Stats

SpecQuery == InitQuery /\ [][NextQuery]_vars

(***************************************************************************)
(* The data points of the predictor: how the routes build one from an      *)
(* assignment and the student's submission (routes/canvas.py 389-409,      *)
(* 443-504) and how extract_features turns one into a feature vector       *)
(* (ml_marking_predictor.py 41-82).  Texts are strings; a keyword occurs   *)
(* in a text where Python's `word in text` is true, that is as a           *)
(* substring.                                                              *)
(***************************************************************************)
MaxTitleParts == 3

UpperCase == "ABCDEFGHIJKLMNOPQRSTUVWXYZ"

LowerCase == "abcdefghijklmnopqrstuvwxyz"

\* str.lower() of one character
LowerChar(c) ==
    IF \E i \in 1..Len(UpperCase) : SubSeq(UpperCase, i, i) = c
    THEN LET i == CHOOSE j \in 1..Len(UpperCase) : SubSeq(UpperCase, j, j) = c
         IN  SubSeq(LowerCase, i, i)
    ELSE c

RECURSIVE Lower(_)
\* str.lower()
Lower(s) ==
    IF s = "" THEN ""
    ELSE LowerChar(SubSeq(s, 1, 1)) \o Lower(SubSeq(s, 2, Len(s)))

\* word in text
Occurs(word, text) ==
    \E i \in 1..(Len(text) - Len(word) + 1) :
        SubSeq(text, i, i + Len(word) - 1) = word

\* any(word in text for word in words)
AnyOccurs(words, text) == \E word \in words : Occurs(word, text)

\* routes/canvas.py 448-459: the keyword lists
QuizWords == {"quiz", "test", "exam"}

EssayWords == {"essay", "paper", "report", "analysis"}

LabWords == {"lab", "practical", "experiment"}

ProjectWords == {"project", "assignment"}

DiscussionWords == {"discussion", "forum", "post"}

HomeworkWords == {"homework", "hw", "problem"}

\* a classification that looks for the essay keywords first
classify_assignment_type_EssayFirst(name, description) ==
    LET name_lower == Lower(name) IN
    IF AnyOccurs(EssayWords, name_lower) THEN "essay"
    ELSE IF AnyOccurs(QuizWords, name_lower) THEN "quiz"
    ELSE IF AnyOccurs(LabWords, name_lower) THEN "lab"
    ELSE IF AnyOccurs(ProjectWords, name_lower) THEN "project"
    ELSE IF AnyOccurs(DiscussionWords, name_lower) THEN "discussion"
    ELSE IF AnyOccurs(HomeworkWords, name_lower) THEN "homework"
    ELSE "other"

\* routes/canvas.py 443-461.  name is a string (the callers pass
\* assignment.get("name", "")), description a string or null.  desc_lower is
\* computed and never looked at.
classify_assignment_type(name, description) ==
    LET name_lower == Lower(name)
        desc_lower == IF description = None \/ description = Some("")
                      THEN "" ELSE Lower(description[1])
    IN
    IF AnyOccurs(QuizWords, name_lower) THEN "quiz"
    ELSE IF AnyOccurs(EssayWords, name_lower) THEN "essay"
    ELSE IF AnyOccurs(LabWords, name_lower) THEN "lab"
    ELSE IF AnyOccurs(ProjectWords, name_lower) THEN "project"
    ELSE IF AnyOccurs(DiscussionWords, name_lower) THEN "discussion"
    ELSE IF AnyOccurs(HomeworkWords, name_lower) THEN "homework"
    ELSE "other"

\* the titles and descriptions of the assignments classified: a title is
\* made of up to MaxTitleParts of these parts
TitleParts == {"Midterm ", "Quiz", " 1", "Essay", "Lab", "Project", "Forum", "HW"}

RECURSIVE TitlesOf(_)
TitlesOf(n) ==
    IF n = 0 THEN {""}
    ELSE LET shorter == TitlesOf(n - 1)
         IN  shorter \cup {t \o part : t \in shorter, part \in TitleParts}

Titles == TitlesOf(MaxTitleParts)

Descriptions ==
    {None, Some(""), Some("A quiz on chapter 1"), Some("Write an essay or a lab report")}

\* what a helper hands back when it returns
Returned(value) == [status |-> "returned", value |-> value]

\* routes/canvas.py 477-479: the word lists of the sentiment analysis
PositiveWords ==
    {"good", "great", "excellent", "well done", "nice", "impressive", "strong",
     "clear", "thorough"}

NegativeWords ==
    {"poor", "weak", "missing", "unclear", "confusing", "incomplete", "wrong",
     "error", "lacking"}

ImprovementWords == {"improve", "consider", "try", "next time", "could", "should", "might"}

\* sum(1 for word in words if word in text)
CountOccurring(words, text) == Cardinality({word \in words : Occurs(word, text)})

CharAt(text, i) == SubSeq(text, i, i)

\* len(text.split()): the words of a text are its runs of non-blank characters
WordCount(text) ==
    Cardinality({i \in 1..Len(text) :
                    /\ CharAt(text, i) # " "
                    /\ (i = 1 \/ CharAt(text, i - 1) = " ")})

Digits == {"0", "1", "2", "3", "4", "5", "6", "7", "8", "9"}

\* re.search(r'\d+\s*points?', text): a digit, blanks, then "point"
MentionsPoints(text) ==
    \E i \in 1..Len(text), j \in 1..Len(text) :
        /\ i < j
        /\ CharAt(text, i) \in Digits
        /\ \A k \in (i + 1)..(j - 1) : CharAt(text, k) = " "
        /\ SubSeq(text, j, j + 4) = "point"

RECURSIVE Join(_)
\* " ".join(texts)
Join(texts) ==
    IF texts = <<>> THEN ""
    ELSE IF Len(texts) = 1 THEN texts[1]
    ELSE texts[1] \o " " \o Join(Tail(texts))

\* routes/canvas.py 463-491.  comments is the list of the comments' texts;
\* the sentiment is in hundredths, rounded down.  Without comments the
\* result has no word_count and no comment_count.
extract_feedback_features(comments) ==
    IF comments = <<>>
    THEN [feedback_length |-> 0,
          feedback_sentiment |-> 0,
          specific_points_mentioned |-> FALSE,
          improvement_suggestions |-> FALSE,
          positive_reinforcement |-> FALSE]
    ELSE
    LET all_text == Join(comments)
        lower == Lower(all_text)
        positive_count == CountOccurring(PositiveWords, lower)
        negative_count == CountOccurring(NegativeWords, lower)
        improvement_count == CountOccurring(ImprovementWords, lower)
        words == WordCount(all_text)
    IN  [feedback_length |-> Len(all_text),
         feedback_sentiment |->
            (100 * (positive_count - negative_count))
                \div (IF words > 1 THEN words ELSE 1),
         specific_points_mentioned |-> MentionsPoints(lower),
         improvement_suggestions |-> improvement_count > 0,
         positive_reinforcement |-> positive_count > 0,
         word_count |-> words,
         comment_count |-> Len(comments)]

\* routes/canvas.py 495-504.  len(assignment.get("description", "")) raises
\* when the description is there and null.
extract_assignment_features(assignment) ==
    IF "description" \in DOMAIN assignment /\ assignment.description = None
    THEN Raised("TypeError")
    ELSE
    LET description == Get(assignment, "description", Some(""))[1] IN
    Returned([points_possible |-> Get(assignment, "points_possible", Some(0)),
              due_date_set |-> GetNullable(assignment, "due_at") # None,
              has_description |-> description # "",
              description_length |-> Len(description),
              submission_types |-> Get(assignment, "submission_types", <<>>),
              allowed_attempts |-> Get(assignment, "allowed_attempts", 1)])

RECURSIVE CriteriaScores(_, _)
\* routes/canvas.py 514-521: awarded / possible of the assessed criteria that
\* are worth points, in hundredths
CriteriaScores(rubric, assessment) ==
    IF rubric = <<>> THEN <<>>
    ELSE
    LET criterion == Head(rubric)
        rest == CriteriaScores(Tail(rubric), assessment)
        possible_points == Get(criterion, "points", 0)
    IN  IF criterion.id \in DOMAIN assessment /\ possible_points > 0
        THEN <<(100 * Get(assessment[criterion.id], "points", 0))
                    \div possible_points>> \o rest
        ELSE rest

\* the smallest and the largest of a non-empty list of numbers
MinOf(xs) == CHOOSE x \in {xs[i] : i \in DOMAIN xs} : \A i \in DOMAIN xs : x <= xs[i]

MaxOf(xs) == CHOOSE x \in {xs[i] : i \in DOMAIN xs} : \A i \in DOMAIN xs : x >= xs[i]

\* routes/canvas.py 532-537: the mean squared deviation from the mean
calculate_variance(scores) ==
    IF Len(scores) < 2 THEN 0
    ELSE LET n == Len(scores)
         IN  (n * SumSquares(scores) - SumSeq(scores) * SumSeq(scores)) \div (n * n)

\* routes/canvas.py 506-530: None without an assessment or a rubric
extract_rubric_features(sub, rinfo) ==
    LET assessment == Get(sub, "rubric_assessment", EmptyDict)
        rubric == LET r == GetNullable(rinfo, "rubric")
                  IN  IF r = None THEN <<>> ELSE r[1]
    IN
    IF assessment = EmptyDict \/ rubric = <<>> THEN None
    ELSE
    LET criteria_scores == CriteriaScores(rubric, assessment) IN
    Some([criteria_count |-> Len(rubric),
          criteria_scores |-> criteria_scores,
          average_criteria_score |->
                IF criteria_scores = <<>> THEN 0 ELSE Mean(criteria_scores),
          lowest_criteria_score |->
                IF criteria_scores = <<>> THEN 0 ELSE MinOf(criteria_scores),
          highest_criteria_score |->
                IF criteria_scores = <<>> THEN 0 ELSE MaxOf(criteria_scores),
          score_variance |->
                IF Len(criteria_scores) > 1
                THEN calculate_variance(criteria_scores) ELSE 0])

\* routes/canvas.py 389-418 (and 814-842): the data point of one graded
\* assignment.  rubric_fetch is what fetch_assignment_rubric returned, or
\* None when it raised.  A TypeError raised while the dict is built (a null
\* score divided by the points possible, the length of a null description)
\* leaves the iteration: no data point.
BuildDataPoint(assignment, sub, rubric_fetch) ==
    LET points_possible == GetNullable(assignment, "points_possible")
        score == Get(sub, "score", Some(0))
        features == extract_assignment_features(assignment)
    IN
    IF points_possible \notin {None, Some(0)} /\ score = None
    THEN Raised("TypeError")
    ELSE IF features.status = "raised" THEN features
    ELSE
    LET rubric_data ==
            IF rubric_fetch = None THEN None
            ELSE IF GetNullable(rubric_fetch[1], "rubric") \in {None, Some(<<>>)}
            THEN None
            ELSE extract_rubric_features(sub, rubric_fetch[1])
    IN
    Returned(
        [assignment_name |-> GetOpt(assignment, "name"),
         assignment_type |->
            classify_assignment_type(Get(assignment, "name", ""),
                                     Get(assignment, "description", Some(""))),
         points_possible |-> points_possible,
         your_score |-> GetNullable(sub, "score"),
         percentage |->
            IF points_possible \in {None, Some(0)} THEN None
            ELSE Some(RoundTenth((10000 * score[1]) \div points_possible[1])),
         late_submission |-> Get(sub, "late", FALSE),
         attempt_count |-> Get(sub, "attempt", Some(1)),
         feedback_data |->
            extract_feedback_features(Get(sub, "submission_comments", <<>>)),
         rubric_data |-> rubric_data,
         assignment_features |-> features.value])

\* 1 if flag else 0
Flag(flag) == IF flag THEN 1 ELSE 0

\* ml_marking_predictor.py 51
assignment_types == <<"quiz", "essay", "lab", "project", "discussion", "homework", "other">>

\* ml_marking_predictor.py 53-54: one entry per type, 1 where it is the type
\* of the data point
OneHot(assignment_type) ==
    [i \in DOMAIN assignment_types |-> Some(Flag(assignment_type = assignment_types[i]))]

\* ml_marking_predictor.py 41-82.  An entry of the list is Some(number), or
\* None where the data point holds a null that .get() passes on.
extract_features(data_point) ==
    LET feedback_data == Get(data_point, "feedback_data", EmptyDict)
        assignment_features == Get(data_point, "assignment_features", EmptyDict)
        rubric_data == GetNullable(data_point, "rubric_data")
    IN
    << Get(data_point, "points_possible", Some(0)),
       Some(Flag(Get(data_point, "late_submission", FALSE))),
       Get(data_point, "attempt_count", Some(1)) >>
    \o OneHot(Get(data_point, "assignment_type", "other"))
    \o << Some(Get(feedback_data, "feedback_length", 0)),
          Some(Get(feedback_data, "feedback_sentiment", 0)),
          Some(Flag(Get(feedback_data, "specific_points_mentioned", FALSE))),
          Some(Flag(Get(feedback_data, "improvement_suggestions", FALSE))),
          Some(Flag(Get(feedback_data, "positive_reinforcement", FALSE))),
          Some(Get(feedback_data, "word_count", 0)),
          Some(Get(feedback_data, "comment_count", 0)) >>
    \o << Some(Flag(Get(assignment_features, "due_date_set", FALSE))),
          Some(Flag(Get(assignment_features, "has_description", FALSE))),
          Some(Get(assignment_features, "description_length", 0)),
          Some(Get(assignment_features, "allowed_attempts", 1)) >>
    \o (IF rubric_data # None /\ rubric_data[1] # EmptyDict
        THEN << Some(Get(rubric_data[1], "criteria_count", 0)),
                Some(Get(rubric_data[1], "average_criteria_score", 0)),
                Some(Get(rubric_data[1], "score_variance", 0)) >>
        ELSE << Some(0), Some(0), Some(0) >>)

\* one key of a JSON object: missing, or there with one of the values
Opt(k, values) == {EmptyDict} \cup {k :> v : v \in values}

\* the assignments Canvas may return: description, points_possible and
\* due_at may be missing or null
CollectAssignments ==
    {[name |-> name] @@ d @@ pp @@ due @@ at :
        name \in {"Midterm Quiz 1", "Week 3 reading"},
        d \in Opt("description", {None, Some("Write an essay")}),
        pp \in Opt("points_possible", {None, Some(0), Some(1000)}),
        due \in Opt("due_at", {Some("2024-05-01")}),
        at \in Opt("allowed_attempts", {-1})}

\* the comments on a submission
CommentLists == {<<>>, <<"Good work, 8 points", "Unclear. Could improve">>}

\* the graded submissions Canvas may return
CollectSubmissions ==
    {[workflow_state |-> "graded", score |-> score] @@ late @@ attempt @@ comments @@ ra :
        score \in {None, Some(800)},
        late \in Opt("late", {TRUE}),
        attempt \in Opt("attempt", {None, Some(2)}),
        comments \in Opt("submission_comments", CommentLists),
        ra \in Opt("rubric_assessment",
                   {[c \in {"c1"} |-> [points |-> 800, rating_id |-> "r2"]]})}

\* what fetch_assignment_rubric does: it raises, or returns no rubric or one
RubricFetches ==
    {None, Some([rubric |-> None]), Some([rubric |-> Some(<<Criterion1, Criterion2>>)])}

\* data points of a data file that these routes did not write: an empty
\* object, types outside the seven, rubric summaries with keys missing
FileDataPoints ==
    {EmptyDict, QuizLow, Unlabeled, NoFeedback,
     [assignment_type |-> "exam"],
     [assignment_type |-> "other", rubric_data |-> Some(EmptyDict)],
     [assignment_type |-> "lab", rubric_data |-> Some([criteria_count |-> 2])],
     [assignment_type |-> "homework", feedback_data |-> EmptyDict,
      assignment_features |-> EmptyDict, rubric_data |-> None]}

\* one call is about to be made: a classification, the collection of one
\* data point, or the feature extraction of a data point read from a file
InitFeatures ==
    /\ model_file = None
    /\ predictor = Some(LecturerMarkingPredictor(None))
    /\ trainings = 0
    /\ ml_ran = {}
    /\ \/ /\ ml_call \in [op : {"classify"}, name : Titles, description : Descriptions]
          /\ ml_result = [status |-> "not_run"]
       \/ /\ ml_call \in [op : {"collect"}, assignment : CollectAssignments,
                          submission : CollectSubmissions, rubric_fetch : RubricFetches]
          /\ ml_result = [status |-> "not_run"]
       \/ /\ ml_call = [op |-> "json.load"]
          /\ ml_result \in {Returned(dp) : dp \in FileDataPoints}
    /\ InitOthersIdle

\* routes/canvas.py 392: classify_assignment_type(name, description)
Classify ==
    /\ ml_call.op = "classify"
    /\ ml_result.status = "not_run"
    /\ ml_result' = Returned(classify_assignment_type(ml_call.name, ml_call.description))
    /\ UNCHANGED <<ml_call, ml_ran, model_file, predictor, trainings>>
    /\ othersIdle

\* routes/canvas.py 389-418: one iteration of the collection loop, for a
\* graded submission
Collect ==
    /\ ml_call.op = "collect"
    /\ ml_result.status = "not_run"
    /\ ml_result' = BuildDataPoint(ml_call.assignment, ml_call.submission,
                                   ml_call.rubric_fetch)
    /\ UNCHANGED <<ml_call, ml_ran, model_file, predictor, trainings>>
    /\ othersIdle

\* ml_marking_predictor.py 99 and 153: extract_features of a data point that
\* was collected or read from a data file; origin is the call the data point
\* came from
ExtractFeatures ==
    /\ predictor # None
    /\ ml_call.op \in {"collect", "json.load"}
    /\ ml_result.status = "returned"
    /\ ml_call' = [op |-> "extract_features", data_point |-> ml_result.value,
                   origin |-> ml_call]
    /\ ml_result' = Returned(extract_features(ml_result.value))
    /\ UNCHANGED <<ml_ran, model_file, predictor, trainings>>
    /\ othersIdle

NextFeatures == Classify \/ Collect \/ ExtractFeatures

SpecFeatures == InitFeatures /\ [][NextFeatures]_vars

(***************************************************************************)
(* Claims about the analyzer, checked under SpecAnalyzer.  The inputs of   *)
(* a state are submission, rubric_info and rubric_assessment; report is    *)
(* the analyzer's answer once analyzer is not "none".                      *)
(***************************************************************************)
Analyzed == analyzer # "none"

Complete == Analyzed /\ report.status = "analysis_complete"

\* the rubric's criteria as handed in (<<>> when the rubric is absent or null)
InputRubric ==
    IF "rubric" \in DOMAIN rubric_info /\ rubric_info.rubric # None
    THEN rubric_info.rubric[1] ELSE <<>>

HasScore == "score" \in DOMAIN submission => submission.score # None

InputScore == IF "score" \in DOMAIN submission THEN submission.score[1] ELSE 0

IsAssessed(c) == c.id \in DOMAIN rubric_assessment

\* the points the assessment map awards to criterion c (0 when it says nothing)
Awarded(c) ==
    IF IsAssessed(c) /\ "points" \in DOMAIN rubric_assessment[c.id]
    THEN rubric_assessment[c.id].points ELSE 0

\* the ratings of c that the assessment of c selects by identifier
SelectedRatings(c) ==
    IF IsAssessed(c) /\ "rating_id" \in DOMAIN rubric_assessment[c.id]
                    /\ "ratings" \in DOMAIN c
    THEN {c.ratings[j] : j \in {k \in 1..Len(c.ratings) :
                                    c.ratings[k].id = rubric_assessment[c.id].rating_id}}
    ELSE {}

RECURSIVE TotalAwarded(_)
TotalAwarded(rubric) ==
    IF rubric = <<>> THEN 0 ELSE Awarded(Head(rubric)) + TotalAwarded(Tail(rubric))

\* C1: whenever the analyzer is given a non-empty rubric and a recorded score,
\* it returns a complete report whose has_discrepancy flag is true exactly
\* when |calculated_score - actual_score| exceeds 0.01 (1 hundredth); a
\* difference of exactly 0.01 is not a discrepancy.
C1_AggregateFlag ==
    (Analyzed /\ InputRubric # <<>> /\ HasScore) =>
        /\ report.status = "analysis_complete"
        /\ report.actual_score = InputScore
        /\ report.score_difference = Abs(report.calculated_score - report.actual_score)
        /\ report.has_discrepancy <=> (report.score_difference > 1)
        /\ (report.score_difference = 1 => ~report.has_discrepancy)

C1_Witness ==
    /\ Complete
    /\ Abs(report.calculated_score - InputScore) = 1
    /\ ~report.has_discrepancy

\* C2: a criterion's finding is flagged, and carries a reason, exactly when the
\* assessment's rating identifier selects a rating of that criterion whose
\* points differ from the awarded points by more than 0.01; a criterion with
\* no matched rating is never flagged, whatever points were awarded.
C2_CriterionFlag ==
    Complete =>
        \A i \in 1..Len(InputRubric) :
            LET c == InputRubric[i]
                f == report.criteria_analysis[i]
            IN  /\ f.has_discrepancy <=>
                        \E r \in SelectedRatings(c) : Abs(r.points - Awarded(c)) > 1
                /\ f.has_discrepancy <=> (f.discrepancy_reason # None)
                /\ (SelectedRatings(c) = {} => ~f.has_discrepancy)

C2_Witness ==
    /\ Complete
    /\ \E i \in 1..Len(InputRubric) :
            /\ SelectedRatings(InputRubric[i]) = {}
            /\ Awarded(InputRubric[i]) = 800
            /\ report.criteria_analysis[i].rating_id # None
            /\ ~report.criteria_analysis[i].has_discrepancy
    /\ \E i \in 1..Len(InputRubric) : report.criteria_analysis[i].has_discrepancy

\* C3: for a rubric with zero criteria (no "rubric" key, null, or an empty
\* list) the analyzer returns the no_rubric_data status and nothing else: no
\* score, difference or discrepancy flag is computed, whatever the assessment
\* map and the recorded score (a null score included).
C3_NoRubricData ==
    (Analyzed /\ InputRubric = <<>>) =>
        /\ report.status = "no_rubric_data"
        /\ DOMAIN report = {"status", "message"}

C3_Witness ==
    /\ Analyzed
    /\ rubric_info = [rubric |-> Some(<<>>)]
    /\ submission = [score |-> None]
    /\ DOMAIN rubric_assessment = {"c1", "c2"}
    /\ report.status = "no_rubric_data"

\* every criterion has an assessment that selects one of its ratings and awards
\* exactly that rating's points
AllAwardedAsRated ==
    /\ InputRubric # <<>>
    /\ \A i \in 1..Len(InputRubric) :
            /\ SelectedRatings(InputRubric[i]) # {}
            /\ \A r \in SelectedRatings(InputRubric[i]) : r.points = Awarded(InputRubric[i])

\* C4 as claimed: when every criterion is awarded its selected rating's points,
\* the report's has_discrepancy is false and calculated_score is the sum of the
\* awarded points.
C4_Original ==
    (Analyzed /\ HasScore /\ AllAwardedAsRated) =>
        /\ report.has_discrepancy = FALSE
        /\ report.calculated_score = TotalAwarded(InputRubric)

\* C4 as amended: when every criterion is awarded its selected rating's points,
\* no per-criterion finding is flagged and calculated_score is the sum of the
\* awarded points; the report's has_discrepancy is false exactly when the
\* recorded score is within 0.01 of that sum.
C4_NoCriterionFlagged ==
    (Analyzed /\ HasScore /\ AllAwardedAsRated) =>
        /\ report.status = "analysis_complete"
        /\ \A i \in 1..Len(InputRubric) : ~report.criteria_analysis[i].has_discrepancy
        /\ report.criteria_with_discrepancies = 0
        /\ report.calculated_score = TotalAwarded(InputRubric)
        /\ ~report.has_discrepancy <=> (Abs(TotalAwarded(InputRubric) - InputScore) <= 1)

C4_Witness ==
    /\ Complete
    /\ AllAwardedAsRated
    /\ Len(InputRubric) = 2
    /\ InputRubric[1] # InputRubric[2]
    /\ report.calculated_score = InputScore
    /\ ~report.has_discrepancy

\* the spec's scenario: rubric [c1: 10 points, ratings r1 = 10 and r2 = 5],
\* assessment {c1: 8 points, rating r2}, recorded score 8
Scenario8 ==
    /\ Analyzed
    /\ rubric_info = [rubric |-> Some(<<Criterion1>>)]
    /\ rubric_assessment = [k \in {"c1"} |-> [points |-> 800, rating_id |-> "r2"]]
    /\ submission = [score |-> Some(800)]

\* C5 as claimed: in the scenario the finding of c1 is flagged with a reason
\* that names the rating r2 and the values 5 and 8, calculated_score is 8 and
\* the report's has_discrepancy is false.
C5_Original ==
    Scenario8 =>
        LET f == report.criteria_analysis[1]
        IN  /\ f.has_discrepancy
            /\ f.discrepancy_reason # None
            /\ f.discrepancy_reason[1].rating = "r2"
            /\ f.discrepancy_reason[1].expected = Some(500)
            /\ f.discrepancy_reason[1].awarded = 800
            /\ report.calculated_score = 800
            /\ ~report.has_discrepancy

\* C5 as amended: in the scenario the finding of c1 is flagged, carries the
\* rating identifier r2, and its reason names the rating by its description
\* (the scenario's ratings have none, which the reason renders as None) and
\* the values 5 and 8; calculated_score is 8 and the report's has_discrepancy
\* is false.
C5_IndependentLevels ==
    Scenario8 =>
        LET f == report.criteria_analysis[1]
        IN  /\ f.has_discrepancy
            /\ f.rating_id = Some("r2")
            /\ f.discrepancy_reason # None
            /\ f.discrepancy_reason[1].rating = "None"
            /\ f.discrepancy_reason[1].expected = Some(500)
            /\ f.discrepancy_reason[1].awarded = 800
            /\ report.calculated_score = 800
            /\ ~report.has_discrepancy

C5_Witness ==
    /\ Scenario8
    /\ report.status = "analysis_complete"
    /\ report.criteria_with_discrepancies = 1
    /\ ~report.has_discrepancy

\* C6: a report has exactly one finding per rubric criterion, in rubric order;
\* a criterion whose identifier is not in the assessment map gets a finding
\* with zero awarded points and null rating fields, and adds 0 to
\* calculated_score.
C6_OneFindingPerCriterion ==
    Complete =>
        /\ Len(report.criteria_analysis) = Len(InputRubric)
        /\ \A i \in 1..Len(InputRubric) :
                LET c == InputRubric[i]
                    f == report.criteria_analysis[i]
                IN  /\ f.criterion_id = Some(c.id)
                    /\ f.possible_points = Some(c.points)
                    /\ ~IsAssessed(c) =>
                            /\ f.points_awarded = 0
                            /\ f.rating_id = None
                            /\ f.rating_description = None
                            /\ f.expected_points = None
        /\ report.calculated_score =
                TotalAwarded(SelectSeq(InputRubric, IsAssessed))

C6_Witness ==
    /\ Complete
    /\ Len(InputRubric) = 2
    /\ ~IsAssessed(InputRubric[1])
    /\ IsAssessed(InputRubric[2])
    /\ report.criteria_analysis[1].points_awarded = 0
    /\ report.calculated_score = 800

(***************************************************************************)
(* Claims about the monitor, checked under SpecMonitor, whose passes run   *)
(* one after another.  For a pass p, loaded[p] is the cache as the pass    *)
(* found it, fetched[p] the submissions it fetched, checked[p] what its    *)
(* rubric checks reported and emitted[p] what it handed to the sink.       *)
(***************************************************************************)
Graded(sub) == sub.workflow_state = "graded"

\* the cache the pass loaded has no entry for the key, or one with another score
NewOrChangedSinceLoad(p, k) ==
    \/ k \notin DOMAIN loaded[p]
    \/ loaded[p][k].score # fetched[p][k].score

\* the pass is still inside the loop iteration of key k, at the given place
Awaiting(p, k, place) == pc[p] = place /\ CurrentKey(p) = k

\* C7: in a pass, for every assignment whose graded submission was fetched, the
\* rubric check is run exactly when the loaded cache has no entry for it or one
\* with another score; the discrepancy is handed to the notification sink
\* exactly when that check reported has_discrepancy; a submission whose score
\* equals the cached score causes no check and no notification.
C7_CheckIffNewOrChanged ==
    \A p \in Triggers :
        /\ DOMAIN emitted[p] \subseteq DOMAIN checked[p]
        /\ DOMAIN checked[p] \subseteq DOMAIN fetched[p]
        /\ \A k \in DOMAIN fetched[p] :
            /\ k \in DOMAIN checked[p] => Graded(fetched[p][k])
            /\ Graded(fetched[p][k]) =>
                /\ Awaiting(p, k, "check") \/
                        (k \in DOMAIN checked[p] <=> NewOrChangedSinceLoad(p, k))
                /\ k \in DOMAIN checked[p] =>
                        \/ Awaiting(p, k, "notify")
                        \/ (k \in DOMAIN emitted[p] <=> checked[p][k])
                /\ ~NewOrChangedSinceLoad(p, k) =>
                        k \notin DOMAIN checked[p] /\ k \notin DOMAIN emitted[p]

C7_Witness ==
    \E p \in Triggers :
        /\ pc[p] = "done"
        /\ <<1, 11>> \in DOMAIN loaded[p]
        /\ <<1, 11>> \in DOMAIN fetched[p]
        /\ loaded[p][<<1, 11>>].score = Some(800)
        /\ fetched[p][<<1, 11>>].score = Some(500)
        /\ <<1, 11>> \in DOMAIN emitted[p]
        /\ <<2, 21>> \in DOMAIN loaded[p]
        /\ <<2, 21>> \in DOMAIN fetched[p]
        /\ Graded(fetched[p][<<2, 21>>])
        /\ <<2, 21>> \notin DOMAIN checked[p]

\* C8: a failure while one assignment is processed (the submission fetch, the
\* rubric check or the notification raising) moves the walk on to the next
\* assignment, the next course or the end of the walk, and never ends the
\* pass; a pass that reaches the end of the walk has visited every assignment
\* of every course, whatever failed on the way.
C8_FailuresSkipped ==
    /\ [][\A p \in Triggers :
            failed'[p] # failed[p] /\ failed'[p] # {} =>
                /\ pc'[p] \in {"assignment", "fetch_assignments", "save"}
                /\ pc'[p] = "assignment" => ci'[p] = ci[p] /\ ai'[p] = ai[p] + 1
                /\ pc'[p] = "fetch_assignments" =>
                        ai[p] = Len(assignments[p]) /\ ci'[p] = ci[p] + 1
                /\ pc'[p] = "save" =>
                        ai[p] = Len(assignments[p]) /\ ci[p] = Len(courses[p])]_vars
    /\ [](\A p \in Triggers : pc[p] \in {"save", "done"} => visited[p] = AllKeys)

C8_Witness ==
    \E p \in Triggers :
        /\ pc[p] = "done"
        /\ <<1, 11>> \in failed[p]
        /\ <<1, 11>> \notin DOMAIN fetched[p]
        /\ <<1, 13>> \in visited[p]
        /\ <<2, 21>> \in DOMAIN fetched[p]

\* C9 as claimed: after a pass has run to its end, the cache holds, for every
\* assignment whose submission was fetched in the pass, graded or not, the
\* submission the pass observed.
C9_Original ==
    \A p \in Triggers :
        pc[p] = "done" =>
            \A k \in DOMAIN fetched[p] :
                k \in DOMAIN persisted /\ persisted[k] = fetched[p][k]

\* C9 as amended: after a pass has run to its end, the cache holds, for every
\* assignment whose fetched submission is graded and whose iteration did not
\* end in the per-assignment exception handler, the submission the pass
\* observed; a fetched submission that is not graded is not stored: the
\* assignment's entry is what the pass loaded.
C9_GradedAreCached ==
    \A p \in Triggers :
        pc[p] = "done" =>
            /\ persisted = grades_cache[p]
            /\ \A k \in DOMAIN fetched[p] :
                /\ (Graded(fetched[p][k]) /\ k \notin failed[p]) =>
                        k \in DOMAIN persisted /\ persisted[k] = fetched[p][k]
                /\ ~Graded(fetched[p][k]) =>
                        /\ k \in DOMAIN persisted <=> k \in DOMAIN loaded[p]
                        /\ k \in DOMAIN persisted => persisted[k] = loaded[p][k]

C9_Witness ==
    \E p \in Triggers :
        /\ pc[p] = "done"
        /\ <<1, 11>> \in DOMAIN fetched[p]
        /\ ~Graded(fetched[p][<<1, 11>>])
        /\ <<1, 11>> \notin DOMAIN persisted
        /\ <<2, 21>> \in DOMAIN fetched[p]
        /\ <<2, 21>> \in DOMAIN persisted
        /\ persisted[<<2, 21>>] = fetched[p][<<2, 21>>]
        /\ <<2, 21>> \in DOMAIN checked[p]

\* C10: a pass writes the cache file at most once, and only after the last
\* assignment of the last course has been processed: a pass that has run to
\* its end has written its whole cache exactly once; while a pass is under
\* way, and after a pass that stopped early, the file is what it was when the
\* pass loaded it.
C10_SavedOnceAtEnd ==
    \A p \in Triggers :
        /\ saves[p] <= 1
        /\ pc[p] = "done" =>
                saves[p] = 1 /\ persisted = grades_cache[p] /\ visited[p] = AllKeys
        /\ pc[p] # "done" => saves[p] = 0
        /\ pc[p] \notin {"idle", "done"} => persisted = loaded[p]

C10_Witness ==
    \E p \in Triggers :
        /\ pc[p] = "aborted"
        /\ persisted # <<>>
        /\ persisted = loaded[p]
        /\ DOMAIN grades_cache[p] # DOMAIN persisted
        /\ saves[p] = 0

(***************************************************************************)
(* Claims about the triggers of the monitor, checked under SpecOverlap.    *)
(***************************************************************************)
ActivePasses == {p \in Triggers : ~Idle(p)}

\* C11: at any time at most one monitoring pass is active: the pass of the
\* interval job and the pass of the manual trigger never run at the same time
\* against the same cache file.
C11_AtMostOnePass == Cardinality(ActivePasses) <= 1

(***************************************************************************)
(* Claims about the marking predictor.  ml_call, ml_result and ml_ran      *)
(* describe the call that led to a state; a step whose next state has      *)
(* ml_call.op = "train" is a call of train_model, and so on.               *)
(***************************************************************************)
Self == predictor[1]

Called(op) == ml_call.op = op

\* the data points of the file the last train_model call was given
TrainingPoints ==
    IF ml_call.data_file = None THEN <<>>
    ELSE Get(ml_call.data_file[1], "data_points", <<>>)

InsufficientData == ErrorResult("Need at least 5 data points to train model")

\* C12: train, given a corpus with fewer than 5 labeled samples (data points
\* with a percentage), fails with InsufficientData; it then fits no model
\* and leaves the persisted profile unchanged.
C12_InsufficientData ==
    [][(Called("train")' /\ ml_call'.data_file # None
            /\ Len(Labeled(TrainingPoints')) < 5) =>
            /\ ml_result' = InsufficientData
            /\ ml_ran' = {}
            /\ model_file' = model_file]_vars

NotTrainedResult == ErrorResult("Model not trained yet")

\* C13: predict and detect_anomaly on a profile that is not trained return
\* the NotTrained error result and run neither the scaler, the regressor nor
\* the anomaly model.
C13_NotTrained ==
    ((Called("predict") \/ Called("detect")) /\ ~Self.is_trained) =>
        /\ ml_result = NotTrainedResult
        /\ ml_ran = {}

\* a detect call on a profile loaded from a file of the older format: the
\* estimators are fitted, the flag is not set
C13_Witness ==
    /\ Called("detect")
    /\ ~Self.is_trained
    /\ Self.scaler.fitted
    /\ ml_result = NotTrainedResult
    /\ ml_ran = {}

\* C14: train is all-or-nothing: when a train call returns an error, the
\* regressor, the anomaly detector, the scaler, the pattern summary and the
\* trained flag are what they were before the call.
C14_AllOrNothing ==
    [][(Called("train")' /\ ml_result'.status = "error") =>
            predictor' = predictor]_vars

\* C15: on any internal failure train returns an error result and the
\* persisted state is the state persisted before the call; the persisted
\* state changes only when train returns success.
C15_PersistedOnlyOnSuccess ==
    [][Called("train")' =>
            /\ ml_result'.status \in {"success", "error"}
            /\ ml_result'.status = "error" => model_file' = model_file
            /\ model_file' # model_file => ml_result'.status = "success"]_vars

Calls == {"train", "predict", "detect", "stats"}

WrittenByTrain(file) ==
    /\ file # None
    /\ file[1].pickle = "ok"
    /\ DOMAIN file[1].data =
        {"grade_predictor", "anomaly_detector", "scaler", "marking_patterns",
         "is_trained", "last_updated"}
    /\ file[1].data.is_trained

\* C17: a successful train persists the pattern summary it returns, and a
\* profile constructed afterwards from the model store is Trained with that
\* summary and the persisted estimators; with no file, or a file that is
\* corrupted or incompatible, construction still succeeds and the profile
\* is Untrained.
C17_LoadedOnFirstAccess ==
    /\ (Called("train") /\ ml_result.status = "success") =>
            /\ WrittenByTrain(model_file)
            /\ model_file[1].data.marking_patterns = ml_result.patterns_discovered
    /\ Called("construct") =>
            /\ ml_result.status = "constructed"
            /\ IF WrittenByTrain(model_file)
               THEN /\ Self.is_trained
                    /\ Self.marking_patterns = model_file[1].data.marking_patterns
                    /\ Self.grade_predictor = model_file[1].data.grade_predictor
                    /\ Self.anomaly_detector = model_file[1].data.anomaly_detector
                    /\ Self.scaler = model_file[1].data.scaler
               ELSE ~Self.is_trained

\* a profile constructed from the file that a training of this run wrote
C17_Witness ==
    /\ Called("construct")
    /\ trainings = 1
    /\ WrittenByTrain(model_file)
    /\ model_file[1].data.last_updated = 1
    /\ Self.is_trained
    /\ Self.marking_patterns.assignment_type_tendencies # EmptyDict

Queries == {"predict", "detect", "stats"}

\* C18: predict, detect_anomaly and stats leave the profile in memory and the
\* persisted state unchanged, the persisted state changes in train only, and
\* stats returns its report, Trained or Untrained.
C18_OnlyTrainMutates ==
    [][/\ ml_call'.op \in Queries =>
            /\ predictor' = predictor
            /\ model_file' = model_file
       /\ model_file' # model_file => Called("train")'
       /\ Called("stats")' =>
            /\ DOMAIN ml_result' = {"instructor_id", "is_trained", "marking_patterns",
                                    "model_file", "last_updated"}
            /\ ml_result'.is_trained = Self.is_trained
            /\ ml_result'.marking_patterns = Self.marking_patterns]_vars

\* stats on a profile that a training of this run made Trained
C18_Witness ==
    /\ Called("stats")
    /\ trainings = 1
    /\ Self.is_trained
    /\ ml_result.is_trained
    /\ ml_result.last_updated # None

Detected == Called("detect") /\ ml_result.status = "success"

Difference == Abs(ml_result.actual_percentage - ml_result.predicted_percentage)

Rank(severity) ==
    IF severity = "low" THEN 0 ELSE IF severity = "medium" THEN 1 ELSE 2

\* the differences from 0 to 40 percentage points, in steps of 0.01
DifferenceGrid == 0..4000

\* C19: with d the absolute difference of actual and predicted percentage
\* and T the threshold, severity is high iff d > 1.5 T, medium iff
\* T < d <= 1.5 T, low iff d <= T; is_significant_anomaly is true exactly for
\* medium and high; and for the same T no larger d gets a lower severity.
C19_Severity ==
    Detected =>
        LET d == Difference
            T == ml_result.threshold
        IN  /\ ml_result.severity \in {"low", "medium", "high"}
            /\ ml_result.severity = "high" <=> 2 * d > 3 * T
            /\ ml_result.severity = "medium" <=> (T < d /\ 2 * d <= 3 * T)
            /\ ml_result.severity = "low" <=> d <= T
            /\ ml_result.is_significant_anomaly <=>
                    ml_result.severity \in {"medium", "high"}
            /\ \A e \in DifferenceGrid :
                    /\ e >= d => Rank(Severity(e, T)) >= Rank(ml_result.severity)
                    /\ e <= d => Rank(Severity(e, T)) <= Rank(ml_result.severity)

\* a difference of exactly 1.5 T is medium
C19_Witness ==
    /\ Detected
    /\ 2 * Difference = 3 * ml_result.threshold
    /\ ml_result.severity = "medium"
    /\ ml_result.is_significant_anomaly

AssignmentType == Get(ml_call.assignment_data, "assignment_type", "other")

Tendencies == Self.marking_patterns.assignment_type_tendencies

\* C20: the threshold detect_anomaly uses is twice the standard deviation
\* the pattern summary records for the assignment's type when the type is
\* known and that deviation is positive, and 15 percentage points otherwise.
C20_Threshold ==
    Detected =>
        ml_result.threshold =
            IF AssignmentType \in DOMAIN Tendencies /\ Tendencies[AssignmentType].std > 0
            THEN 2 * Tendencies[AssignmentType].std
            ELSE 1500

\* a quiz judged against quizzes whose percentages spread by 10 points
C20_Witness ==
    /\ Detected
    /\ AssignmentType = "quiz"
    /\ "quiz" \in DOMAIN Tendencies
    /\ Tendencies["quiz"].std = 1000
    /\ ml_result.threshold = 2000

\* the fits of the regressor and of the anomaly model
ModelFits == {"grade_predictor.fit", "anomaly_detector.fit"}

\* C21: a data point without a percentage is left out of the training
\* corpus: the regressor and the anomaly model are fitted on the labeled
\* data points only, they are fitted only if there are at least 5 of those,
\* and rows are held out for evaluation exactly if there are more than 10
\* of those.
C21_UnlabeledExcluded ==
    [][(Called("train")' /\ ml_call'.data_file # None) =>
            LET labeled == Len(Labeled(TrainingPoints')) IN
            /\ (ml_ran' \cap ModelFits # {}) =>
                    /\ labeled >= 5
                    /\ Self'.anomaly_detector = Fitted(trainings', labeled)
                    /\ Self'.grade_predictor.training = trainings'
                    /\ Self'.grade_predictor.rows <= labeled
            /\ ml_result'.status = "success" =>
                    /\ ml_result'.data_points_used = labeled
                    /\ (ml_result'.model_performance.mae # None) <=> (labeled > 10)
                    /\ (Self'.grade_predictor.rows < labeled) <=> (labeled > 10)]_vars

(***************************************************************************)
(* Claims about data points and feature vectors, checked under             *)
(* SpecFeatures.  There the call is chosen in the initial state            *)
(* (ml_result.status = "not_run") and one step makes it.                   *)
(***************************************************************************)
Classified == ml_call.op = "classify" /\ ml_result.status = "returned"

\* the categories in the order of their priority
PriorityOrder == <<"quiz", "essay", "lab", "project", "discussion", "homework">>

KeywordsOf(category) ==
    CASE category = "quiz" -> QuizWords
      [] category = "essay" -> EssayWords
      [] category = "lab" -> LabWords
      [] category = "project" -> ProjectWords
      [] category = "discussion" -> DiscussionWords
      [] category = "homework" -> HomeworkWords

\* the places in PriorityOrder of the categories with a keyword in the text
Matching(text) ==
    {i \in DOMAIN PriorityOrder : AnyOccurs(KeywordsOf(PriorityOrder[i]), Lower(text))}

\* the category of the text: the earliest matching one, else other
FirstMatch(text) ==
    IF Matching(text) = {} THEN "other"
    ELSE PriorityOrder[CHOOSE i \in Matching(text) : \A j \in Matching(text) : i <= j]

\* C22: the classification of a title is the first category, in the order
\* quiz, essay, lab, project, discussion, homework, one of whose keywords
\* occurs in the title, and other when none does; "Midterm Quiz 1" without a
\* description is a quiz.
C22_FirstCategory ==
    Classified =>
        /\ ml_result.value = FirstMatch(ml_call.name)
        /\ (ml_call.name = "Midterm Quiz 1" /\ ml_call.description = None) =>
                ml_result.value = "quiz"

\* a title with the keywords of two categories, the later one first
C22_Witness ==
    /\ Classified
    /\ ml_call.name = "EssayQuiz"
    /\ Cardinality(Matching(ml_call.name)) = 2
    /\ ml_result.value = "quiz"

\* C23: an assignment whose title has no keyword and whose description has
\* one is classified by its description, not as other.
C23_DescriptionUsed ==
    (/\ Classified
     /\ Matching(ml_call.name) = {}
     /\ ml_call.description # None
     /\ Matching(ml_call.description[1]) # {}) =>
        /\ ml_result.value = FirstMatch(ml_call.description[1])
        /\ ml_result.value # "other"

Extracted == ml_call.op = "extract_features" /\ ml_result.status = "returned"

\* the data point extract_features was given and the vector it returned
DataPoint == ml_call.data_point

Features == ml_result.value

\* the places of the vector: the seven type entries and the three rubric ones
TypeEntries == 4..10

RubricEntries == 22..24

\* the type of the data point is one of the six named categories
TypeMatched ==
    /\ "assignment_type" \in DOMAIN DataPoint
    /\ \E i \in DOMAIN PriorityOrder : PriorityOrder[i] = DataPoint.assignment_type

NumericInputs ==
    {<<"", "points_possible", 1>>, <<"", "attempt_count", 3>>,
     <<"feedback_data", "feedback_length", 11>>,
     <<"feedback_data", "feedback_sentiment", 12>>,
     <<"feedback_data", "word_count", 16>>,
     <<"feedback_data", "comment_count", 17>>,
     <<"assignment_features", "description_length", 20>>,
     <<"assignment_features", "allowed_attempts", 21>>}

BooleanInputs ==
    {<<"", "late_submission", 2>>,
     <<"feedback_data", "specific_points_mentioned", 13>>,
     <<"feedback_data", "improvement_suggestions", 14>>,
     <<"feedback_data", "positive_reinforcement", 15>>,
     <<"assignment_features", "due_date_set", 18>>,
     <<"assignment_features", "has_description", 19>>}

\* the input is not in the data point: its key, or the object that holds
\* it, is not there
Missing(input) ==
    IF input[1] = "" THEN input[2] \notin DOMAIN DataPoint
    ELSE \/ input[1] \notin DOMAIN DataPoint
         \/ input[2] \notin DOMAIN DataPoint[input[1]]

\* the data point was collected from an assignment and a submission
Collected == Extracted /\ ml_call.origin.op = "collect"

Assignment == ml_call.origin.assignment

Submission == ml_call.origin.submission

\* C25: every numeric input that is missing is 0 in the feature vector, and
\* so is every missing boolean input: those missing from the data point
\* and, for a collected data point, those missing from the assignment or
\* the submission it was collected from.
C25_MissingAsZero ==
    /\ Extracted =>
            \A input \in NumericInputs \cup BooleanInputs :
                Missing(input) => Features[input[3]] = Some(0)
    /\ Collected =>
            /\ "points_possible" \notin DOMAIN Assignment => Features[1] = Some(0)
            /\ "late" \notin DOMAIN Submission => Features[2] = Some(0)
            /\ "attempt" \notin DOMAIN Submission => Features[3] = Some(0)
            /\ "submission_comments" \notin DOMAIN Submission =>
                    \A i \in 11..17 : Features[i] = Some(0)
            /\ "due_at" \notin DOMAIN Assignment => Features[18] = Some(0)
            /\ "description" \notin DOMAIN Assignment =>
                    Features[19] = Some(0) /\ Features[20] = Some(0)
            /\ "allowed_attempts" \notin DOMAIN Assignment => Features[21] = Some(0)

(***************************************************************************)
(* Claims about passes that follow one another (SpecMonitor) and passes    *)
(* that overlap (SpecOverlap).                                             *)
(***************************************************************************)
\* C26: when the passes run one after another, at most one notification is
\* sent for a grade (a course, an assignment and its score) as long as the
\* grade is not changed in Canvas.
C26_NotifiedOnce == \A grade \in DOMAIN notified : notified[grade] <= 1

\* the keys pass p recorded in its cache: those it stored a submission under
\* that the cache it loaded did not hold
Recorded(p) ==
    {k \in DOMAIN grades_cache[p] :
        k \notin DOMAIN loaded[p] \/ grades_cache[p][k] # loaded[p][k]}

\* both triggers ran a pass, the two were under way at the same time, and
\* both have written the cache file
BothDone == \A p \in Triggers : pc[p] = "done"

\* C27: after two passes that overlap have both finished, the cache file
\* holds every entry that either of them recorded.
C27_NoLostUpdate ==
    BothDone =>
        \A p \in Triggers : \A k \in Recorded(p) :
            /\ k \in DOMAIN persisted
            /\ \E q \in Triggers : k \in Recorded(q) /\ persisted[k] = grades_cache[q][k]

\* C28: in both versions of monitor_grades a grade whose rubric check ended
\* in an error is not stored in the pass's cache: it is still new or changed
\* for the cache the pass will save.
C28_ErrorNotCached ==
    \A p \in Triggers : \A k \in errored[p] :
        NewOrChanged(grades_cache[p], k, fetched[p][k])

\* what the other copy of analyze_grade_against_rubric returns for the
\* inputs of the state
OtherCopy ==
    IF analyzer = "grading_service"
    THEN canvas_api_analyze_grade_against_rubric(submission, rubric_info, rubric_assessment)
    ELSE analyze_grade_against_rubric(submission, rubric_info, rubric_assessment)

\* C29: the copy of analyze_grade_against_rubric in grading_service.py and
\* the one in canvas_api.py return the same status, calculated score, score
\* difference, aggregate flag and findings for the same submission, rubric
\* and assessment map.
C29_CopiesAgree ==
    Analyzed =>
        /\ report.status = OtherCopy.status
        /\ Complete =>
            /\ report.calculated_score = OtherCopy.calculated_score
            /\ report.score_difference = OtherCopy.score_difference
            /\ report.has_discrepancy = OtherCopy.has_discrepancy
            /\ report.criteria_analysis = OtherCopy.criteria_analysis

\* the copy of canvas_api.py analysed two criteria, flagged one of them and
\* found the score more than 0.01 off
C29_Witness ==
    /\ Complete
    /\ analyzer = "canvas_api"
    /\ Len(report.criteria_analysis) = 2
    /\ report.has_discrepancy
    /\ report.criteria_with_discrepancies = 1
    /\ OtherCopy.criteria_with_discrepancies = 1

\* C30: predict and detect_anomaly on a trained profile return a result whose
\* status is success or error and never raise, whatever the points possible;
\* an error result holds a status and a message and nothing else.
C30_NeverRaises ==
    ((Called("predict") \/ Called("detect")) /\ Self.is_trained) =>
        /\ ml_result.status \in {"success", "error"}
        /\ ml_result.status = "error" => DOMAIN ml_result = {"status", "message"}

=============================================================================
